---- MODULE Spec2Model ----
(***************************************************************************)
(* The capture flow of the PulseApp screens: acquire -> prepare -> upload  *)
(* -> present -> persist.  Three screen components are modelled, one       *)
(* mounted per behaviour (the variable screen):                            *)
(*   "food"       FoodScannerScreen.js                                     *)
(*   "barcode"    BarcodeScannerNative.js, lines   1-289 (multipart)       *)
(*   "barcode24h" BarcodeScannerNative.js, lines 291-805 (JSON transport,  *)
(*                24-hour prune window)                                    *)
(* Every async function is a coroutine: one action per await point.  A     *)
(* handler reads the React state of the render in which it was invoked,    *)
(* so a coroutine keeps a snapshot of the state it closed over.            *)
(* AsyncStorage serves its calls in call order, so a read or a write takes *)
(* effect when it is issued and its promise settles in a later step.       *)
(***************************************************************************)
EXTENDS Integers, Sequences, FiniteSets, TLC

\* ------------------------------------------------------------- bounds
MaxUploads == 2           \* uploads started on one barcode screen instance
MaxTicks == 1             \* clock advances in one behaviour
MaxAcquire == 2           \* pickFromGallery / takePhoto calls in one behaviour
MaxScans == 2             \* scans started on one pulse screen instance
MaxStops == 1             \* stopScan calls on one pulse screen instance
MaxSamples == 1           \* PulseSample events in one behaviour

\* What one behaviour may contain: several acquisitions around one upload,
\* or one acquisition followed by overlapping uploads, or one acquisition
\* and one upload while the clock advances.
Budgets ==
    { [acquire |-> MaxAcquire, uploads |-> 1, ticks |-> 0],
      [acquire |-> 1, uploads |-> MaxUploads, ticks |-> 0],
      [acquire |-> 1, uploads |-> 1, ticks |-> MaxTicks] }

\* -------------------------------------------------- program constants
HISTORY_CAP == 50                          \* .slice(0, 50)
TWENTY_FOUR_HOURS == 24 * 60 * 60 * 1000   \* milliseconds

\* ------------------------------------------------------ JS value coding
Undefined == "undefined"
\* JS truthiness of a string-coded value (booleans are coded "true"/"false")
Truthy(x) == x \notin {Undefined, "false", "null", ""}
\* an optional value (null | object) is a sequence of length 0 or 1
Null == <<>>
Some(x) == <<x>>
IsNull(o) == o = <<>>
The(o) == o[1]
Min(a, b) == IF a < b THEN a ELSE b
\* Array.prototype.slice(0, n)
slice(arr, n) == SubSeq(arr, 1, Min(Len(arr), n))

Screens == {"food", "barcode", "barcode24h"}

\* ----------------------------------------------------------- the clock
\* Date.now() at mount; the value itself is arbitrary
T0 == 3 * TWENTY_FOUR_HOURS
\* how far one step of the clock may advance it
TickSteps == {1, TWENTY_FOUR_HOURS}
\* a record whose `when` is missing (falsy)
NoWhen == 0

\* -------------------------------------------------------- acquisition
PickedUri == "file:///picked.jpg"
ManipUri == "file:///manipulated.jpg"

\* what requestMediaLibraryPermissionsAsync / requestCameraPermissionsAsync
\* resolve to; the last two are the older shape, without `granted`
PermissionResponses ==
    { [status |-> "granted", granted |-> "true"],
      [status |-> "denied", granted |-> "false"],
      [status |-> "undetermined", granted |-> "false"],
      [status |-> "denied", granted |-> Undefined],
      [status |-> "granted", granted |-> Undefined] }

\* the response grants access
Grants(perm) == perm.status = "granted"

\* widths of picked images, in pixels: one below and one above the
\* default maxWidth of prepareImage; 0 codes a missing width
SmallWidth == 800
LargeWidth == 4000
NoWidth == 0
\* their heights, likewise
SmallHeight == 600
LargeHeight == 3000
NoHeight == 0

\* what launchImageLibraryAsync / launchCameraAsync resolve to: the two
\* spellings of a dismissal, and the two shapes of a selection (a small
\* image in the older shape, a large one in the newer)
PickerResults ==
    { [cancelled |-> "true", canceled |-> Undefined, uri |-> Undefined,
       width |-> NoWidth, height |-> NoHeight, assets |-> <<>>],
      [cancelled |-> Undefined, canceled |-> "true", uri |-> Undefined,
       width |-> NoWidth, height |-> NoHeight, assets |-> <<>>],
      [cancelled |-> "false", canceled |-> Undefined, uri |-> PickedUri,
       width |-> SmallWidth, height |-> SmallHeight, assets |-> <<>>],
      [cancelled |-> Undefined, canceled |-> "false", uri |-> Undefined,
       width |-> NoWidth, height |-> NoHeight,
       assets |-> <<[uri |-> PickedUri, width |-> LargeWidth,
                     height |-> LargeHeight, fileName |-> "picked.jpg",
                     type |-> "image"]>>] }

\* prepareImage's defaults: maxWidth = 1600, compress = 0.8 (in percent)
DefaultMaxWidth == 1600
DefaultCompress == 80

\* the arguments of ImageManipulator.manipulateAsync(uri, actions, options)
\* as prepareImage passes them
manipulateRequest(uri, maxWidth, compress) ==
    [uri |-> uri, actions |-> <<[resize |-> [width |-> maxWidth]]>>,
     compress |-> compress, format |-> "jpeg"]

\* the user dismissed the picker, in either spelling
Dismissed(res) == res.cancelled = "true" \/ res.canceled = "true"

\* an image record of the screen state
ImageOf(uri, fileName, type) ==
    [uri |-> uri, fileName |-> fileName, type |-> type]

\* ------------------------------------------------------------ messages
\* an Error message / alert text, by what it is built from
Msg(kind, status, text) == [kind |-> kind, status |-> status, text |-> text]
NoMsg == Msg("none", 0, "")
NoAlert == [title |-> "none", msg |-> NoMsg]

\* --------------------------------------------------------- the backend
JsonProductText == "{\"barcode\":\"123\",\"product\":{\"product_name\":\"Milk\"}}"
JsonEmptyText == "{}"
JsonTexts == {JsonProductText, JsonEmptyText}

\* HTTP responses the backend may give: status and body text
ServerResponses ==
    { [status |-> 200, text |-> JsonProductText],
      [status |-> 200, text |-> "OK"],
      [status |-> 415, text |-> "unsupported field"],
      [status |-> 500, text |-> "boom"] }

\* Response.ok
RespOk(resp) == resp.status >= 200 /\ resp.status <= 299

\* a response body value: the fields the screens read
BodyOf(barcode, product_name, image_url, rawText) ==
    [barcode |-> barcode, product_name |-> product_name,
     image_url |-> image_url, rawText |-> rawText]

\* JSON.parse of a body text that is valid JSON
ParseJson(text) ==
    IF text = JsonProductText
    THEN BodyOf("123", "Milk", Undefined, Undefined)
    ELSE BodyOf(Undefined, Undefined, Undefined, Undefined)

\* Response.json(): reads the body (marking it used) and parses it
RespJson(resp, bodyUsed) ==
    IF bodyUsed THEN [ok |-> FALSE, value |-> ParseJson(JsonEmptyText),
                      err |-> Msg("already-read", 0, "")]
    ELSE IF resp.text \in JsonTexts
    THEN [ok |-> TRUE, value |-> ParseJson(resp.text), err |-> NoMsg]
    ELSE [ok |-> FALSE, value |-> ParseJson(JsonEmptyText),
          err |-> Msg("json-parse", 0, "")]

\* Response.text(): rejects when the body was already read
RespText(resp, bodyUsed) ==
    IF bodyUsed THEN [ok |-> FALSE, value |-> "",
                      err |-> Msg("already-read", 0, "")]
    ELSE [ok |-> TRUE, value |-> resp.text, err |-> NoMsg]

\* ------------------------------------------------------- AsyncStorage
\* JSON.stringify of a list of records / JSON.parse of a stored document
JSONstringify(arr) == [valid |-> TRUE, items |-> arr]
CorruptDoc == [valid |-> FALSE, items |-> <<>>]
JSONparseOk(doc) == doc.valid
JSONparse(doc) == doc.items

\* =================================================================
\* The state
\* =================================================================
VARIABLES
    screen,        \* which screen component is mounted
    image,         \* useState(null): the selected image
    result,        \* food screen: useState(null)
    uploading,     \* food screen: useState(false)
    serverResult,  \* barcode screens: useState(null)
    loading,       \* barcode screens: useState(false)
    savedFoods,    \* barcode screens: useState([])
    storage,       \* the AsyncStorage slot "SAVED_BARCODES"
    now,           \* Date.now()
    ticks,         \* how often the clock has advanced
    lastAlert,     \* the last Alert.alert shown
    acq,           \* the running pickFromGallery / takePhoto call
    acquired,      \* pickFromGallery / takePhoto calls so far
    load,          \* the mount-time load of the barcode screens
    uploads,       \* the upload calls
    ended,         \* how the upload call that returned last went
    saves,         \* saveResult calls so far, and those whose write succeeded
    budget,        \* what this behaviour may contain (one of Budgets)
    productShown,  \* the product of the server result that is rendered
    rendered,      \* what renderProduct shows of it, once it has run
    bpm,           \* pulse screen: useState(null)
    scanning,      \* pulse screen: useState(false)
    sampleCount,   \* pulse screen: useState(0)
    currentValue,  \* pulse screen: useState(0)
    heartHistory,  \* pulse screen: `history`, useState({})
    heartStore,    \* the AsyncStorage slot "heartRateHistory"
    pulseLoad,     \* the mount-time loadHistory call
    dialog,        \* the "How to Measure" dialog is open
    startCall,     \* the PulseModule.startScan promise
    stopCall,      \* the PulseModule.stopScan promise
    native,        \* the native module is scanning
    events,        \* the native events on their way to the listeners
    handlers,      \* the running PulseScanResult listeners
    scans          \* scans started, events emitted, stopScan and saveBpm
                   \* calls so far; how the user's cancel of the last
                   \* scan went

vars == <<screen, image, result, uploading, serverResult, loading,
          savedFoods, storage, now, ticks, lastAlert, acq, acquired, load,
          uploads, ended, saves, budget, productShown,
          rendered, bpm, scanning, sampleCount, currentValue, heartHistory,
          heartStore, pulseLoad, dialog, startCall, stopCall, native,
          events, handlers, scans>>

\* the history of the barcode screens; the clock (with the budget, which
\* never changes); the screen state of either kind of screen
history == <<savedFoods, storage, load, saves>>
clock == <<now, ticks, budget>>
foodState == <<result, uploading>>
presenter == <<productShown, rendered>>
barcodeState == <<serverResult, loading>>
\* the pulse screen: what it shows, its history, its calls into the native
\* module and the module itself
pulseShown == <<bpm, scanning, sampleCount, currentValue>>
pulseHistory == <<heartHistory, heartStore, pulseLoad>>
pulseCalls == <<dialog, startCall, stopCall, handlers>>
pulseNative == <<native, events, scans>>
pulseState == <<pulseShown, pulseHistory, pulseCalls, pulseNative>>
\* the three scanner screens
scanners == <<screen, image, foodState, barcodeState, history, acq,
              acquired, uploads, ended, presenter>>

\* the fields renderProduct reads of a product
ProductOf(analysis, labels, product_name, name, allergens, nutrition) ==
    [harmful_ingredients_analysis |-> analysis, labels |-> labels,
     product_name |-> product_name, name |-> name, allergens |-> allergens,
     nutrition |-> nutrition]

\* `product = {}`: no field is set
NoProduct ==
    ProductOf(Undefined, Undefined, Undefined, Undefined, Undefined, <<>>)

\* ------------------------------------------------- the pulse screen
\* `{}`: a history without a day
EmptyHistory == [d \in {} |-> <<>>]

\* what the native calls and the scan counters are before any scan
NoScans ==
    [started |-> 0, samples |-> 0, results |-> 0, stops |-> 0, saved |-> 0,
     cancelled |-> "no"]

\* the pulse screen is not mounted
PulseUnmounted ==
    /\ bpm = Null
    /\ scanning = FALSE
    /\ sampleCount = 0
    /\ currentValue = 0
    /\ heartHistory = EmptyHistory
    /\ heartStore = Null
    /\ pulseLoad = [pc |-> "done", s |-> Null, outcome |-> "none"]
    /\ dialog = FALSE
    /\ startCall = <<>>
    /\ stopCall = <<>>
    /\ native = FALSE
    /\ events = <<>>
    /\ handlers = <<>>
    /\ scans = NoScans

\* ----------------------------------------------------------- frames
\* the frame of an acquisition call: where it is suspended and its locals
IdleAcq == [pc |-> "idle", kind |-> "none", perm |-> Null, res |-> Null,
            normalized |-> Null, request |-> Null]

\* the frame of an upload call; uri and saved are the image and the
\* savedFoods of the render the handler was created in
IdleUpload ==
    [pc |-> "idle", field |-> 0, sent |-> <<>>, resp |-> Null,
     uri |-> Undefined, saved |-> <<>>, retried |-> FALSE,
     manip |-> "none", preview |-> Null, write |-> "none"]

\* the frame of an upload call of a barcode screen that returned
DoneUpload == [IdleUpload EXCEPT !.pc = "done"]

\* how an upload call went: its outcome and the requests it sent
EndedOf(outcome, sent) == [outcome |-> outcome, sent |-> sent]

UploadIds == 1 .. MaxUploads

\* the upload call a press of the upload button starts: the first unused
NextUpload ==
    IF \E u \in 1 .. budget.uploads : uploads[u].pc = "idle"
    THEN Some(CHOOSE u \in 1 .. budget.uploads :
                /\ uploads[u].pc = "idle"
                /\ \A v \in UploadIds : v < u => uploads[v].pc # "idle")
    ELSE Null

InFlight(u) == uploads[u].pc \notin {"idle", "done"}

\* the field names an upload tries, in order
fieldNames == <<"file", "image">>

\* ------------------------------------------------- the stored history
\* history records of the multipart barcode screen (what uploadImage
\* passes to saveResult)
OutOf(method, field, status, body, when) ==
    [method |-> method, field |-> field, status |-> status, body |-> body,
     when |-> when]

\* history records of the 24-hour barcode screen
PreviewOf(when, barcode, title, image_url, body) ==
    [when |-> when, barcode |-> barcode, title |-> title,
     image_url |-> image_url, body |-> body]

\* a preview stored by an earlier screen instance, with the given timestamp
StoredPreview(when) ==
    PreviewOf(when, "123", <<"", "Milk">>, "null",
              BodyOf("123", "Milk", Undefined, Undefined))

\* a record stored by an earlier instance of the multipart screen
StoredOut(when) ==
    OutOf("upload", "file", 200,
          BodyOf("123", "Milk", Undefined, Undefined), when)

\* what the slot may hold when the multipart barcode screen mounts:
\* nothing, one record, a full history, an unparseable document
InitialStoresBarcode ==
    { Null,
      Some(JSONstringify(<<StoredOut(T0 - 1)>>)),
      Some(JSONstringify([i \in 1 .. HISTORY_CAP |-> StoredOut(T0 - i)])),
      Some(CorruptDoc) }

\* what the slot may hold when the 24-hour barcode screen mounts: nothing,
\* a history that holds a fresh record, one a millisecond inside the
\* window, one without `when` and one exactly 24 hours old, a full history
\* of fresh records, an unparseable document
InitialStoresBarcode24h ==
    { Null,
      Some(JSONstringify(<<StoredPreview(T0 - 1),
                           StoredPreview(T0 - TWENTY_FOUR_HOURS + 1),
                           StoredPreview(NoWhen),
                           StoredPreview(T0 - TWENTY_FOUR_HOURS)>>)),
      Some(JSONstringify([i \in 1 .. HISTORY_CAP |-> StoredPreview(T0 - i)])),
      Some(CorruptDoc) }

InitialStores(s) ==
    IF s = "barcode" THEN InitialStoresBarcode
    ELSE IF s = "barcode24h" THEN InitialStoresBarcode24h
    ELSE {Null}

\* the frame of the mount-time load: getItem is issued at mount and reads
\* the slot as it is then
LoadFrame(s, stored) ==
    [pc |-> IF s = "food" THEN "done" ELSE "getItem", s |-> stored,
     allFoods |-> <<>>, recentFoods |-> <<>>, t |-> 0, write |-> "none",
     outcome |-> "none"]

Init ==
    /\ screen \in Screens
    /\ image = Null
    /\ result = Null
    /\ uploading = FALSE
    /\ serverResult = Null
    /\ loading = FALSE
    /\ savedFoods = <<>>
    /\ storage \in InitialStores(screen)
    /\ now = T0
    /\ ticks = 0
    /\ lastAlert = NoAlert
    /\ acq = IdleAcq
    /\ acquired = 0
    /\ load = LoadFrame(screen, storage)
    /\ uploads = [u \in UploadIds |-> IdleUpload]
    /\ ended = EndedOf("none", <<>>)
    /\ saves = [calls |-> 0, ok |-> 0]
    /\ budget \in Budgets
    /\ productShown = NoProduct
    /\ rendered = Null
    /\ PulseUnmounted

\* Alert.alert(title, message)
Alert(title, msg) == [title |-> title, msg |-> msg]

\* =================================================================
\* The event loop and the environment
\* =================================================================

\* A promise's continuation runs as a microtask, before the event loop
\* takes its next event: while a settled promise waits for its
\* continuation, nothing else runs.
Quiet ==
    /\ acq.pc \notin {"permitted", "picked"}
    /\ \A u \in UploadIds :
          uploads[u].pc \notin {"fetched", "manipulated", "manipulated2"}

\* The system picker / camera covers the screen while it is open: no
\* button of the screen can be pressed.
UIAvailable == Quiet /\ acq.pc # "picker"

\* pickFromGallery / takePhoto can be started
CanAcquire == UIAvailable /\ acq.pc = "idle" /\ acquired < budget.acquire

\* the start of pickFromGallery ("gallery") / takePhoto ("camera"): the
\* permission request is issued
StartAcquire(kind) ==
    /\ CanAcquire
    /\ acq' = [IdleAcq EXCEPT !.pc = "permission", !.kind = kind]
    /\ acquired' = acquired + 1
    /\ UNCHANGED <<presenter, pulseState>>
    /\ UNCHANGED <<screen, image, foodState, barcodeState, history, clock,
                   lastAlert, uploads, ended>>

\* the permission promise settles
PermissionSettles ==
    /\ Quiet /\ acq.pc = "permission"
    /\ \E perm \in PermissionResponses :
          acq' = [acq EXCEPT !.pc = "permitted", !.perm = Some(perm)]
    /\ UNCHANGED <<presenter, pulseState>>
    /\ UNCHANGED <<screen, image, foodState, barcodeState, history, clock,
                   lastAlert, acquired, uploads, ended>>

\* the picker / camera promise settles: a result, or a rejection (Null)
PickerSettles ==
    /\ Quiet /\ acq.pc = "picker"
    /\ \E res \in {Some(x) : x \in PickerResults} \cup {Null} :
          acq' = [acq EXCEPT !.pc = "picked", !.res = res]
    /\ UNCHANGED <<presenter, pulseState>>
    /\ UNCHANGED <<screen, image, foodState, barcodeState, history, clock,
                   lastAlert, acquired, uploads, ended>>

\* the fetch promise of upload u settles: a response, or a rejection (Null)
FetchSettles(u) ==
    /\ Quiet /\ uploads[u].pc = "fetch"
    /\ \E r \in {Some(x) : x \in ServerResponses} \cup {Null} :
          uploads' = [uploads EXCEPT ![u].pc = "fetched", ![u].resp = r]
    /\ UNCHANGED <<presenter, pulseState>>
    /\ UNCHANGED <<screen, image, foodState, barcodeState, history, clock,
                   lastAlert, acq, acquired, ended>>

\* manipulateAsync resolves with a base64 payload, resolves without one,
\* or rejects
ManipResults == {"base64", "no-base64", "rejects"}

\* the manipulateAsync promise of upload u settles (the resize-plus-base64
\* call, or the base64-only call of the retry)
ManipSettles(u) ==
    /\ Quiet /\ uploads[u].pc \in {"manip", "manip2"}
    /\ \E m \in ManipResults :
          uploads' = [uploads EXCEPT
                         ![u].pc = IF uploads[u].pc = "manip" THEN "manipulated"
                                   ELSE "manipulated2",
                         ![u].manip = m]
    /\ UNCHANGED <<presenter, pulseState>>
    /\ UNCHANGED <<screen, image, foodState, barcodeState, history, clock,
                   lastAlert, acq, acquired, ended>>

\* the clock advances (only the 24-hour screen reads it for more than a
\* timestamp)
Tick ==
    /\ screen = "barcode24h" /\ Quiet
    /\ ticks < budget.ticks
    /\ \E d \in TickSteps : now' = now + d
    /\ ticks' = ticks + 1
    /\ UNCHANGED <<presenter, pulseState>>
    /\ UNCHANGED <<screen, image, foodState, barcodeState, history, budget,
                   lastAlert, acq, acquired, uploads, ended>>

\* ImageManipulator.manipulateAsync cannot succeed without a uri
ManipOutcomes(uri) == IF Truthy(uri) THEN {TRUE, FALSE} ELSE {FALSE}

\* `await resp.text().catch(() => "")`
textOrEmpty(resp, bodyUsed) ==
    LET t == RespText(resp, bodyUsed) IN IF t.ok THEN t.value ELSE ""

\* StatusError without the body text: what the total-failure property must
\* tell apart from the code
StatusError_noBody(resp) == Msg("status", resp.status, "")

\* the message `${status}: ${text}` of a rejected request
StatusError(resp) == Msg("status", resp.status, textOrEmpty(resp, FALSE))

\* =================================================================
\* FoodScannerScreen.js
\* =================================================================

\* a permission test that never refuses: what the permission-gating
\* property must tell apart from the code
PermDenied_never(perm) == FALSE

\* `!perm.granted`
Food_permDenied(perm) == ~Truthy(perm.granted)

\* `!res.cancelled`
Food_notCancelled(res) == ~Truthy(res.cancelled)

\* pickFromGallery / takePhoto up to the first await
Food_pickFromGallery == screen = "food" /\ StartAcquire("gallery")

Food_takePhoto == screen = "food" /\ StartAcquire("camera")

\* after `await request...PermissionsAsync()`
Food_AfterPermission ==
    /\ screen = "food" /\ acq.pc = "permitted"
    /\ IF Food_permDenied(The(acq.perm))
       THEN /\ lastAlert' = Alert("Permission required", Msg(acq.kind, 0, ""))
            /\ acq' = IdleAcq
       ELSE /\ acq' = [acq EXCEPT !.pc = "picker"]
            /\ UNCHANGED lastAlert
    /\ UNCHANGED <<presenter, pulseState>>
    /\ UNCHANGED <<screen, image, foodState, barcodeState, history, clock,
                   acquired, uploads, ended>>

\* after `await launchImageLibraryAsync / launchCameraAsync`; a rejection
\* ends the call
Food_AfterPicker ==
    /\ screen = "food" /\ acq.pc = "picked"
    /\ IF ~IsNull(acq.res) /\ Food_notCancelled(The(acq.res))
       THEN /\ result' = Null
            /\ acq' = [acq EXCEPT !.pc = "prepare",
                           !.request = Some(manipulateRequest(
                               The(acq.res).uri, DefaultMaxWidth,
                               DefaultCompress))]
       ELSE /\ acq' = IdleAcq
            /\ UNCHANGED result
    /\ UNCHANGED <<presenter, pulseState>>
    /\ UNCHANGED <<screen, image, uploading, barcodeState, history, clock,
                   lastAlert, acquired, uploads, ended>>

\* a prepareImage without the fallback of its catch block
PrepareImage_noFallback(uri, manipOk) ==
    ImageOf(IF manipOk THEN ManipUri ELSE Undefined, Undefined, Undefined)

\* prepareImage(uri): the manipulated image, or the original uri when the
\* manipulation fails
Food_prepareImage(uri, manipOk) ==
    IF manipOk THEN ImageOf(ManipUri, Undefined, Undefined)
    ELSE ImageOf(uri, Undefined, Undefined)

\* after `await prepareImage(res.uri)`
Food_AfterPrepare ==
    /\ screen = "food" /\ Quiet /\ acq.pc = "prepare"
    /\ \E manipOk \in ManipOutcomes(The(acq.res).uri) :
          image' = Some(Food_prepareImage(The(acq.res).uri, manipOk))
    /\ acq' = IdleAcq
    /\ UNCHANGED <<presenter, pulseState>>
    /\ UNCHANGED <<screen, foodState, barcodeState, history, clock, lastAlert,
                   acquired, uploads, ended>>

\* the Reset button
Food_Reset ==
    /\ screen = "food" /\ UIAvailable
    /\ image' = Null
    /\ result' = Null
    /\ UNCHANGED <<presenter, pulseState>>
    /\ UNCHANGED <<screen, uploading, barcodeState, history, clock, lastAlert,
                   acq, acquired, uploads, ended>>

\* the body of a 2xx response: resp.json(), and resp.text() when that fails
Food_parseBody(resp) ==
    LET j == RespJson(resp, FALSE)
        t == RespText(resp, TRUE)
    IN  IF j.ok THEN [ok |-> TRUE, body |-> j.value, err |-> NoMsg]
        ELSE IF t.ok
        THEN [ok |-> TRUE,
              body |-> BodyOf(Undefined, Undefined, Undefined, t.value),
              err |-> NoMsg]
        ELSE [ok |-> FALSE, body |-> ParseJson(JsonEmptyText), err |-> t.err]

\* the Analyze Food button: disabled={!image || uploading}
Food_uploadEnabled == ~IsNull(image) /\ ~uploading

\* uploadToBackend up to the first fetch; the call's frame is free again
\* when it returns
Food_uploadToBackend ==
    /\ screen = "food" /\ UIAvailable /\ Food_uploadEnabled
    /\ ~IsNull(NextUpload)
    /\ LET u == The(NextUpload) IN
       IF IsNull(image) \/ ~Truthy(The(image).uri)
       THEN /\ lastAlert' = Alert("No image", NoMsg)
            /\ ended' = EndedOf("refused", <<>>)
            /\ UNCHANGED <<result, uploading, uploads>>
       ELSE /\ uploading' = TRUE
            /\ result' = Null
            /\ uploads' = [uploads EXCEPT ![u] =
                   [IdleUpload EXCEPT !.pc = "fetch", !.field = 1,
                                      !.sent = <<fieldNames[1]>>,
                                      !.uri = The(image).uri]]
            /\ UNCHANGED <<lastAlert, ended>>
    /\ UNCHANGED <<presenter, pulseState>>
    /\ UNCHANGED <<screen, image, barcodeState, history, clock, acq, acquired>>

\* an upload that ends without clearing its flag: what the no-stuck-loading
\* property must tell apart from the code
Finally_keepsFlag == TRUE

\* what the catch and finally blocks of uploadToBackend leave in `uploading`
Food_finally == FALSE

\* uploadToBackend after `await fetch(...)` for the current field name
Food_AfterFetch(u) ==
    /\ screen = "food" /\ uploads[u].pc = "fetched"
    /\ LET f == uploads[u]
           failWith(msg) ==
               /\ lastAlert' = Alert("Upload failed", msg)
               /\ uploading' = Food_finally
               /\ uploads' = [uploads EXCEPT ![u] = IdleUpload]
               /\ ended' = EndedOf("failed", f.sent)
               /\ UNCHANGED result
       IN
       IF IsNull(f.resp)
       THEN failWith(Msg("network", 0, ""))
       ELSE LET resp == The(f.resp)
                p == Food_parseBody(resp)
            IN
            IF RespOk(resp)
            THEN IF p.ok
                 THEN /\ result' = Some([fieldNameUsed |-> fieldNames[f.field],
                                         body |-> p.body,
                                         status |-> resp.status])
                      /\ uploading' = Food_finally
                      /\ uploads' = [uploads EXCEPT ![u] = IdleUpload]
                      /\ ended' = EndedOf("success", f.sent)
                      /\ UNCHANGED lastAlert
                 ELSE failWith(p.err)
            ELSE IF f.field < Len(fieldNames)
                 THEN /\ uploads' = [uploads EXCEPT ![u] =
                             [f EXCEPT !.pc = "fetch", !.field = f.field + 1,
                                       !.resp = Null,
                                       !.sent = Append(f.sent, fieldNames[f.field + 1])]]
                      /\ UNCHANGED <<result, uploading, lastAlert, ended>>
                 ELSE failWith(StatusError(resp))
    /\ UNCHANGED <<presenter, pulseState>>
    /\ UNCHANGED <<screen, image, barcodeState, history, clock, acq, acquired>>

\* =================================================================
\* BarcodeScannerNative.js, the multipart screen (lines 1-289)
\* =================================================================

\* loadSaved after `await AsyncStorage.getItem("SAVED_BARCODES")`
Bar_loadSaved ==
    /\ screen = "barcode" /\ Quiet /\ load.pc = "getItem"
    /\ \E readOk \in BOOLEAN :
          IF readOk /\ ~IsNull(load.s) /\ JSONparseOk(The(load.s))
          THEN /\ savedFoods' = JSONparse(The(load.s))
               /\ load' = [load EXCEPT !.pc = "done", !.outcome = "loaded"]
          ELSE /\ load' = [load EXCEPT !.pc = "done",
                      !.outcome = IF ~readOk THEN "read-failed"
                                  ELSE IF IsNull(load.s) THEN "empty"
                                  ELSE "parse-failed"]
               /\ UNCHANGED savedFoods
    /\ UNCHANGED <<presenter, pulseState>>
    /\ UNCHANGED <<screen, image, foodState, barcodeState, storage, saves,
                   clock, lastAlert, acq, acquired, uploads, ended>>

\* `!perm.granted`
Bar_permDenied(perm) == ~Truthy(perm.granted)

\* `!res.cancelled`
Bar_notCancelled(res) == ~Truthy(res.cancelled)

Bar_pickFromGallery == screen = "barcode" /\ StartAcquire("gallery")

Bar_takePhoto == screen = "barcode" /\ StartAcquire("camera")

\* after `await request...PermissionsAsync()`
Bar_AfterPermission ==
    /\ screen = "barcode" /\ acq.pc = "permitted"
    /\ IF Bar_permDenied(The(acq.perm))
       THEN /\ lastAlert' = Alert("Permission required", Msg(acq.kind, 0, ""))
            /\ acq' = IdleAcq
       ELSE /\ acq' = [acq EXCEPT !.pc = "picker"]
            /\ UNCHANGED lastAlert
    /\ UNCHANGED <<presenter, pulseState>>
    /\ UNCHANGED <<screen, image, foodState, barcodeState, history, clock,
                   acquired, uploads, ended>>

\* after `await launchImageLibraryAsync / launchCameraAsync`; a rejection
\* ends the call
Bar_AfterPicker ==
    /\ screen = "barcode" /\ acq.pc = "picked"
    /\ IF ~IsNull(acq.res) /\ Bar_notCancelled(The(acq.res))
       THEN acq' = [acq EXCEPT !.pc = "prepare",
                       !.request = Some(manipulateRequest(
                           The(acq.res).uri, DefaultMaxWidth,
                           DefaultCompress))]
       ELSE acq' = IdleAcq
    /\ UNCHANGED <<presenter, pulseState>>
    /\ UNCHANGED <<screen, image, foodState, barcodeState, history, clock,
                   lastAlert, acquired, uploads, ended>>

\* prepareImage(uri): the manipulated image, or the original uri when the
\* manipulation fails
Bar_prepareImage(uri, manipOk) ==
    IF manipOk THEN ImageOf(ManipUri, Undefined, Undefined)
    ELSE ImageOf(uri, Undefined, Undefined)

\* after `await prepareImage(res.uri)`: setImage(prepared);
\* setServerResult(null)
Bar_AfterPrepare ==
    /\ screen = "barcode" /\ Quiet /\ acq.pc = "prepare"
    /\ \E manipOk \in ManipOutcomes(The(acq.res).uri) :
          image' = Some(Bar_prepareImage(The(acq.res).uri, manipOk))
    /\ serverResult' = Null
    /\ acq' = IdleAcq
    /\ UNCHANGED <<presenter, pulseState>>
    /\ UNCHANGED <<screen, foodState, loading, history, clock, lastAlert,
                   acquired, uploads, ended>>

\* the Clear button, rendered when `image` is set
Bar_clearSelection ==
    /\ screen = "barcode" /\ UIAvailable /\ ~IsNull(image)
    /\ image' = Null
    /\ serverResult' = Null
    /\ UNCHANGED <<presenter, pulseState>>
    /\ UNCHANGED <<screen, foodState, loading, history, clock, lastAlert,
                   acq, acquired, uploads, ended>>

\* the body of a 2xx response: resp.json(), and resp.text() when that fails
Bar_parseBody(resp) ==
    LET j == RespJson(resp, FALSE)
        t == RespText(resp, TRUE)
    IN  IF j.ok THEN [ok |-> TRUE, body |-> j.value, err |-> NoMsg]
        ELSE IF t.ok
        THEN [ok |-> TRUE,
              body |-> BodyOf(Undefined, Undefined, Undefined, t.value),
              err |-> NoMsg]
        ELSE [ok |-> FALSE, body |-> ParseJson(JsonEmptyText), err |-> t.err]

\* saveResult: `[item, ...savedFoods].slice(0, 50)`
Bar_newArr(item, saved) == slice(<<item>> \o saved, HISTORY_CAP)

\* the Scan Barcode button is rendered when `image` is set
Bar_uploadEnabled == ~IsNull(image)

\* uploadImage up to the first fetch
Bar_uploadImage ==
    /\ screen = "barcode" /\ UIAvailable /\ Bar_uploadEnabled
    /\ ~IsNull(NextUpload)
    /\ LET u == The(NextUpload) IN
       IF IsNull(image) \/ ~Truthy(The(image).uri)
       THEN /\ lastAlert' = Alert("No image selected", NoMsg)
            /\ uploads' = [uploads EXCEPT ![u] = DoneUpload]
            /\ ended' = EndedOf("refused", <<>>)
            /\ UNCHANGED <<serverResult, loading>>
       ELSE /\ loading' = TRUE
            /\ serverResult' = Null
            /\ uploads' = [uploads EXCEPT ![u] =
                   [IdleUpload EXCEPT !.pc = "fetch", !.field = 1,
                                      !.sent = <<fieldNames[1]>>,
                                      !.uri = The(image).uri,
                                      !.saved = savedFoods]]
            /\ UNCHANGED <<lastAlert, ended>>
    /\ UNCHANGED <<presenter, pulseState>>
    /\ UNCHANGED <<screen, image, foodState, history, clock, acq, acquired>>

\* what the finally block of uploadImage leaves in `loading`
Bar_finally == FALSE

\* uploadImage after `await fetch(...)` for the current field name; on a
\* 2xx response saveResult(out) runs up to its `await setItem`, which
\* nothing follows
Bar_AfterFetch(u) ==
    /\ screen = "barcode" /\ uploads[u].pc = "fetched"
    /\ LET f == uploads[u]
           failWith(msg) ==
               /\ lastAlert' = Alert("Upload failed", msg)
               /\ loading' = Bar_finally
               /\ uploads' = [uploads EXCEPT ![u] = DoneUpload]
               /\ ended' = EndedOf("failed", f.sent)
               /\ UNCHANGED <<serverResult, savedFoods, storage, saves>>
       IN
       IF IsNull(f.resp)
       THEN failWith(Msg("network", 0, ""))
       ELSE LET resp == The(f.resp)
                p == Bar_parseBody(resp)
                out == OutOf("upload", fieldNames[f.field], resp.status,
                             p.body, now)
                newArr == Bar_newArr(out, f.saved)
            IN
            IF RespOk(resp)
            THEN IF p.ok
                 THEN /\ serverResult' = Some(out)
                      /\ savedFoods' = newArr
                      /\ \E writeOk \in BOOLEAN :
                            /\ storage' = IF writeOk
                                          THEN Some(JSONstringify(newArr))
                                          ELSE storage
                            /\ saves' = [calls |-> saves.calls + 1,
                                         ok |-> IF writeOk THEN saves.ok + 1
                                                ELSE saves.ok]
                      /\ loading' = Bar_finally
                      /\ uploads' = [uploads EXCEPT ![u] = DoneUpload]
                      /\ ended' = EndedOf("success", f.sent)
                      /\ UNCHANGED lastAlert
                 ELSE failWith(p.err)
            ELSE IF f.field < Len(fieldNames)
                 THEN /\ uploads' = [uploads EXCEPT ![u] =
                             [f EXCEPT !.pc = "fetch", !.field = f.field + 1,
                                       !.resp = Null,
                                       !.sent = Append(f.sent, fieldNames[f.field + 1])]]
                      /\ UNCHANGED <<serverResult, loading, savedFoods, storage,
                                     saves, lastAlert, ended>>
                 ELSE failWith(StatusError(resp))
    /\ UNCHANGED <<presenter, pulseState>>
    /\ UNCHANGED <<screen, image, foodState, load, clock, acq, acquired>>

\* =================================================================
\* BarcodeScannerNative.js, the 24-hour screen (lines 291-805)
\* =================================================================

\* `uri.split("/").pop()`: what follows the last "/"
RECURSIVE lastSegment(_)
lastSegment(uri) ==
    IF \E i \in 1 .. Len(uri) : SubSeq(uri, i, i) = "/"
    THEN LET i == CHOOSE k \in 1 .. Len(uri) : SubSeq(uri, k, k) = "/"
         IN lastSegment(SubSeq(uri, i + 1, Len(uri)))
    ELSE uri

\* `uri.endsWith(suffix)`
endsWith(uri, suffix) ==
    /\ Len(uri) >= Len(suffix)
    /\ SubSeq(uri, Len(uri) - Len(suffix) + 1, Len(uri)) = suffix

\* the record normalizePickerResult returns
NormalizedOf(uri, width, height, fileName, type) ==
    [uri |-> uri, width |-> width, height |-> height, fileName |-> fileName,
     type |-> type]

\* a normalizePickerResult that reads the last asset of the list
NormalizePickerResult_lastAsset(res) ==
    IF Len(res.assets) > 0
    THEN LET a == res.assets[Len(res.assets)] IN
         Some(NormalizedOf(a.uri, a.width, a.height, a.fileName, a.type))
    ELSE IF Truthy(res.uri)
    THEN Some(NormalizedOf(res.uri, res.width, res.height, Undefined,
                           Undefined))
    ELSE Null

\* normalizePickerResult(res), for a result that is not null: one image
\* record from the first asset or from the result itself; null when there
\* is neither an asset nor a uri
normalizePickerResult(res) ==
    IF Len(res.assets) > 0
    THEN LET a == res.assets[1] IN
         Some(NormalizedOf(
                a.uri, a.width, a.height,
                IF Truthy(a.fileName) THEN a.fileName
                ELSE IF Truthy(a.uri) THEN lastSegment(a.uri) ELSE Undefined,
                IF Truthy(a.type) THEN a.type
                ELSE IF Truthy(a.uri) /\ endsWith(a.uri, ".png")
                THEN "image/png" ELSE "image/jpeg"))
    ELSE IF Truthy(res.uri)
    THEN Some(NormalizedOf(res.uri, res.width, res.height, Undefined,
                           Undefined))
    ELSE Null

\* a filter that keeps every record
FilterRecent_keepsAll(foodsArray, t) == foodsArray

\* filterRecentFoods(foodsArray), with t the value of Date.now()
filterRecentFoods(foodsArray, t) ==
    SelectSeq(foodsArray,
              LAMBDA item : item.when # NoWhen
                            /\ (t - item.when) < TWENTY_FOUR_HOURS)

\* the mount effect after `await AsyncStorage.getItem("SAVED_BARCODES")`
Bar24_AfterGetItem ==
    /\ screen = "barcode24h" /\ Quiet /\ load.pc = "getItem"
    /\ \E readOk \in BOOLEAN :
          IF readOk /\ ~IsNull(load.s) /\ JSONparseOk(The(load.s))
          THEN LET allFoods == JSONparse(The(load.s))
                   recentFoods == filterRecentFoods(allFoods, now)
               IN
               IF Len(recentFoods) # Len(allFoods)
               THEN /\ \E writeOk \in BOOLEAN :
                         /\ storage' = IF writeOk
                                       THEN Some(JSONstringify(recentFoods))
                                       ELSE storage
                         /\ load' = [load EXCEPT !.pc = "setItem",
                                        !.allFoods = allFoods,
                                        !.recentFoods = recentFoods,
                                        !.t = now,
                                        !.write = IF writeOk THEN "ok"
                                                  ELSE "failed"]
                    /\ UNCHANGED savedFoods
               ELSE /\ savedFoods' = recentFoods
                    /\ load' = [load EXCEPT !.pc = "done",
                                   !.allFoods = allFoods,
                                   !.recentFoods = recentFoods,
                                   !.t = now,
                                   !.outcome = "loaded"]
                    /\ UNCHANGED storage
          ELSE /\ load' = [load EXCEPT !.pc = "done",
                      !.outcome = IF ~readOk THEN "read-failed"
                                  ELSE IF IsNull(load.s) THEN "empty"
                                  ELSE "parse-failed"]
               /\ UNCHANGED <<savedFoods, storage>>
    /\ UNCHANGED <<presenter, pulseState>>
    /\ UNCHANGED <<screen, image, foodState, barcodeState, saves, clock,
                   lastAlert, acq, acquired, uploads, ended>>

\* the mount effect after `await AsyncStorage.setItem(...)` of the pruned list
Bar24_AfterWriteBack ==
    /\ screen = "barcode24h" /\ Quiet /\ load.pc = "setItem"
    /\ IF load.write = "ok"
       THEN /\ savedFoods' = load.recentFoods
            /\ load' = [load EXCEPT !.pc = "done", !.outcome = "loaded"]
       ELSE /\ load' = [load EXCEPT !.pc = "done", !.outcome = "write-failed"]
            /\ UNCHANGED savedFoods
    /\ UNCHANGED <<presenter, pulseState>>
    /\ UNCHANGED <<screen, image, foodState, barcodeState, storage, saves,
                   clock, lastAlert, acq, acquired, uploads, ended>>

\* `(perm.status && perm.status !== "granted") || (perm.granted === false)`
Bar24_permDenied(perm) ==
    (Truthy(perm.status) /\ perm.status # "granted") \/ perm.granted = "false"

\* `res.canceled === true || res.cancelled === true`
Bar24_cancelled(res) == res.canceled = "true" \/ res.cancelled = "true"

Bar24_pickFromGallery == screen = "barcode24h" /\ StartAcquire("gallery")

Bar24_takePhoto == screen = "barcode24h" /\ StartAcquire("camera")

\* after `await request...PermissionsAsync()`
Bar24_AfterPermission ==
    /\ screen = "barcode24h" /\ acq.pc = "permitted"
    /\ IF Bar24_permDenied(The(acq.perm))
       THEN /\ lastAlert' = Alert("Permission required", Msg(acq.kind, 0, ""))
            /\ acq' = IdleAcq
       ELSE /\ acq' = [acq EXCEPT !.pc = "picker"]
            /\ UNCHANGED lastAlert
    /\ UNCHANGED <<presenter, pulseState>>
    /\ UNCHANGED <<screen, image, foodState, barcodeState, history, clock,
                   acquired, uploads, ended>>

\* after `await launchImageLibraryAsync / launchCameraAsync`; a rejection,
\* like a result that is null (reading `res.canceled` of it throws), is
\* caught and alerted
Bar24_AfterPicker ==
    /\ screen = "barcode24h" /\ acq.pc = "picked"
    /\ IF IsNull(acq.res)
       THEN /\ lastAlert' = Alert("Error", Msg(acq.kind, 0, ""))
            /\ acq' = IdleAcq
       ELSE LET res == The(acq.res)
                normalized == normalizePickerResult(res)
            IN
            IF Bar24_cancelled(res)
            THEN /\ acq' = IdleAcq
                 /\ UNCHANGED lastAlert
            ELSE IF IsNull(normalized) \/ ~Truthy(The(normalized).uri)
            THEN /\ lastAlert' = Alert(IF acq.kind = "gallery" THEN "No image"
                                       ELSE "Camera failed", NoMsg)
                 /\ acq' = IdleAcq
            ELSE /\ acq' = [acq EXCEPT !.pc = "prepare",
                                       !.normalized = normalized,
                                       !.request = Some(manipulateRequest(
                                           The(normalized).uri,
                                           DefaultMaxWidth, DefaultCompress))]
                 /\ UNCHANGED lastAlert
    /\ UNCHANGED <<presenter, pulseState>>
    /\ UNCHANGED <<screen, image, foodState, barcodeState, history, clock,
                   acquired, uploads, ended>>

\* prepareImage(uri): null without a uri, else the manipulated image, or
\* the original uri when the manipulation fails
Bar24_prepareImage(uri, manipOk) ==
    IF ~Truthy(uri) THEN Null
    ELSE IF manipOk THEN Some(ImageOf(ManipUri, Undefined, Undefined))
    ELSE Some(ImageOf(uri, Undefined, Undefined))

\* after `await prepareImage(normalized.uri)`: setImage(final);
\* setServerResult(null)
Bar24_AfterPrepare ==
    /\ screen = "barcode24h" /\ Quiet /\ acq.pc = "prepare"
    /\ LET normalized == The(acq.normalized) IN
       \E manipOk \in ManipOutcomes(normalized.uri) :
          LET prepared == Bar24_prepareImage(normalized.uri, manipOk) IN
          image' = IF IsNull(prepared) THEN Some(normalized)
                   ELSE Some(ImageOf(The(prepared).uri, normalized.fileName,
                                     normalized.type))
    /\ serverResult' = Null
    /\ acq' = IdleAcq
    /\ UNCHANGED <<presenter, pulseState>>
    /\ UNCHANGED <<screen, foodState, loading, history, clock, lastAlert,
                   acquired, uploads, ended>>

\* the Clear button, rendered when `image` is set
Bar24_clearSelection ==
    /\ screen = "barcode24h" /\ UIAvailable /\ ~IsNull(image)
    /\ image' = Null
    /\ serverResult' = Null
    /\ UNCHANGED <<presenter, pulseState>>
    /\ UNCHANGED <<screen, foodState, loading, history, clock, lastAlert,
                   acq, acquired, uploads, ended>>

\* the Scan Barcode button is rendered when `image` is set
Bar24_uploadEnabled == ~IsNull(image)

\* uploadImage up to the first manipulateAsync
Bar24_uploadImage ==
    /\ screen = "barcode24h" /\ UIAvailable /\ Bar24_uploadEnabled
    /\ ~IsNull(NextUpload)
    /\ LET u == The(NextUpload) IN
       IF IsNull(image) \/ ~Truthy(The(image).uri)
       THEN /\ lastAlert' = Alert("No image selected", NoMsg)
            /\ uploads' = [uploads EXCEPT ![u] = DoneUpload]
            /\ ended' = EndedOf("refused", <<>>)
            /\ UNCHANGED <<serverResult, loading>>
       ELSE /\ loading' = TRUE
            /\ serverResult' = Null
            /\ uploads' = [uploads EXCEPT ![u] =
                   [IdleUpload EXCEPT !.pc = "manip",
                                      !.uri = The(image).uri,
                                      !.saved = savedFoods]]
            /\ UNCHANGED <<lastAlert, ended>>
    /\ UNCHANGED <<presenter, pulseState>>
    /\ UNCHANGED <<screen, image, foodState, history, clock, acq, acquired>>

\* what the finally block of uploadImage leaves in `loading`
Bar24_finally == FALSE

\* a catch block that also drops the history
Fail_dropsHistory(u, msg) ==
    /\ lastAlert' = Alert("Upload failed", msg)
    /\ loading' = Bar24_finally
    /\ uploads' = [uploads EXCEPT ![u] = DoneUpload]
    /\ ended' = EndedOf("failed", uploads[u].sent)
    /\ savedFoods' = <<>>
    /\ storage' = Null
    /\ UNCHANGED <<serverResult, saves>>

\* uploadImage ends in its catch block: one alert, then the finally block
Bar24_fail(u, msg) ==
    /\ lastAlert' = Alert("Upload failed", msg)
    /\ loading' = Bar24_finally
    /\ uploads' = [uploads EXCEPT ![u] = DoneUpload]
    /\ ended' = EndedOf("failed", uploads[u].sent)
    /\ UNCHANGED <<serverResult, savedFoods, storage, saves>>

\* uploadImage sends its one request
Bar24_fetch(u) ==
    /\ uploads' = [uploads EXCEPT ![u].pc = "fetch",
                                  ![u].manip = "none",
                                  ![u].sent = Append(uploads[u].sent, "json")]
    /\ UNCHANGED <<serverResult, loading, savedFoods, storage, saves,
                   lastAlert, ended>>

\* `!manipResult || !manipResult.base64` does not hold
HasBase64_always(m) == TRUE

Bar24_hasBase64(m) == m = "base64"

\* uploadImage after the resize-plus-base64 manipulateAsync: a rejection is
\* caught and the base64-only manipulateAsync is called
Bar24_AfterManip(u) ==
    /\ screen = "barcode24h" /\ uploads[u].pc = "manipulated"
    /\ LET m == uploads[u].manip IN
       IF m = "rejects"
       THEN /\ uploads' = [uploads EXCEPT ![u].pc = "manip2",
                                          ![u].manip = "none",
                                          ![u].retried = TRUE]
            /\ UNCHANGED <<serverResult, loading, savedFoods, storage,
                           saves, lastAlert, ended>>
       ELSE IF Bar24_hasBase64(m) THEN Bar24_fetch(u)
       ELSE Bar24_fail(u, Msg("base64", 0, ""))
    /\ UNCHANGED <<presenter, pulseState>>
    /\ UNCHANGED <<screen, image, foodState, load, clock, acq, acquired>>

\* uploadImage after the base64-only manipulateAsync of the catch block: a
\* rejection leaves the inner catch block for the outer one
Bar24_AfterManipRetry(u) ==
    /\ screen = "barcode24h" /\ uploads[u].pc = "manipulated2"
    /\ LET m == uploads[u].manip IN
       IF m = "rejects" THEN Bar24_fail(u, Msg("manipulate", 0, ""))
       ELSE IF Bar24_hasBase64(m) THEN Bar24_fetch(u)
       ELSE Bar24_fail(u, Msg("base64", 0, ""))
    /\ UNCHANGED <<presenter, pulseState>>
    /\ UNCHANGED <<screen, image, foodState, load, clock, acq, acquired>>

\* the body of a 2xx response: resp.json(), and
\* `{ rawText: await resp.text().catch(() => "") }` when that fails
Bar24_parseBody(resp) ==
    LET j == RespJson(resp, FALSE) IN
    IF j.ok THEN j.value
    ELSE BodyOf(Undefined, Undefined, Undefined, textOrEmpty(resp, TRUE))

\* saveResult: the preview record built from the upload's result; the
\* title is product_name, else `Barcode ${barcode}`, else "Product"
Bar24_preview(item) ==
    LET b == item.body IN
    PreviewOf(item.when,
              IF Truthy(b.barcode) THEN b.barcode ELSE "null",
              IF Truthy(b.product_name) THEN <<"", b.product_name>>
              ELSE IF Truthy(b.barcode) THEN <<"Barcode ", b.barcode>>
              ELSE <<"", "Product">>,
              IF Truthy(b.image_url) THEN b.image_url ELSE "null",
              b)

\* saveResult: `[preview, ...filterRecentFoods(savedFoods)].slice(0, 50)`
Bar24_newArr(preview, saved, t) ==
    slice(<<preview>> \o filterRecentFoods(saved, t), HISTORY_CAP)

\* only a 5xx response counts as rejected
Rejected_only5xx(resp) == resp.status >= 500

\* `!resp.ok`
Bar24_rejected(resp) == ~RespOk(resp)

\* uploadImage after `await fetch(...)`; on a 2xx response
\* setServerResult(out) and saveResult(out) up to its `await setItem`
Bar24_AfterFetch(u) ==
    /\ screen = "barcode24h" /\ uploads[u].pc = "fetched"
    /\ LET f == uploads[u] IN
       IF IsNull(f.resp)
       THEN Bar24_fail(u, Msg("network", 0, ""))
       ELSE LET resp == The(f.resp)
                out == OutOf("scan_json", Undefined, resp.status,
                             Bar24_parseBody(resp), now)
                preview == Bar24_preview(out)
                newArr == Bar24_newArr(preview, f.saved, now)
            IN
            IF Bar24_rejected(resp)
            THEN Bar24_fail(u, StatusError(resp))
            ELSE /\ serverResult' = Some(out)
                 /\ savedFoods' = newArr
                 /\ \E writeOk \in BOOLEAN :
                       /\ storage' = IF writeOk THEN Some(JSONstringify(newArr))
                                     ELSE storage
                       /\ saves' = [calls |-> saves.calls + 1,
                                    ok |-> IF writeOk THEN saves.ok + 1
                                           ELSE saves.ok]
                       /\ uploads' = [uploads EXCEPT ![u] =
                              [f EXCEPT !.pc = "saving", !.resp = Null,
                                        !.preview = Some(preview),
                                        !.write = IF writeOk THEN "ok"
                                                  ELSE "failed"]]
                 /\ UNCHANGED <<loading, lastAlert, ended>>
    /\ UNCHANGED <<presenter, pulseState>>
    /\ UNCHANGED <<screen, image, foodState, load, clock, acq, acquired>>

\* uploadImage after `await saveResult(out)`: the finally block
Bar24_AfterSave(u) ==
    /\ screen = "barcode24h" /\ Quiet /\ uploads[u].pc = "saving"
    /\ loading' = Bar24_finally
    /\ uploads' = [uploads EXCEPT ![u] = DoneUpload]
    /\ ended' = EndedOf("success", uploads[u].sent)
    /\ UNCHANGED <<presenter, pulseState>>
    /\ UNCHANGED <<screen, image, foodState, serverResult, history, clock,
                   lastAlert, acq, acquired>>

\* =================================================================
\* BarcodeScannerNative.js, the 24-hour screen: the result presenter
\* (lines 550-665)
\* =================================================================

\* ------------------------------------------------------------- strings
\* s.charAt(i - 1), "" outside the string
CharAt(s, i) == IF i >= 1 /\ i <= Len(s) THEN SubSeq(s, i, i) ELSE ""

\* s.startsWith(t, i - 1)
StartsWithAt(s, i, t) ==
    i >= 1 /\ i + Len(t) - 1 <= Len(s) /\ SubSeq(s, i, i + Len(t) - 1) = t

UpperCase == "ABCDEFGHIJKLMNOPQRSTUVWXYZ"
LowerCase == "abcdefghijklmnopqrstuvwxyz"
Digits == "0123456789"

\* the characters \s matches and trim() strips
WhiteSpace == {" ", "\t", "\n", "\r"}

\* the characters that end a line
LineBreaks == {"\n", "\r"}

\* c is one of the characters of the string cs
OneOf(c, cs) == \E i \in 1 .. Len(cs) : SubSeq(cs, i, i) = c

\* the characters \w matches
IsWordChar(c) ==
    OneOf(c, UpperCase) \/ OneOf(c, LowerCase) \/ OneOf(c, Digits) \/ c = "_"

lowerChar(c) ==
    IF OneOf(c, UpperCase)
    THEN LET i == CHOOSE j \in 1 .. Len(UpperCase) : SubSeq(UpperCase, j, j) = c
         IN SubSeq(LowerCase, i, i)
    ELSE c

\* String.prototype.toLowerCase
RECURSIVE toLowerCase(_)
toLowerCase(s) ==
    IF Len(s) = 0 THEN ""
    ELSE lowerChar(SubSeq(s, 1, 1)) \o toLowerCase(SubSeq(s, 2, Len(s)))

\* String.prototype.trim
RECURSIVE trimStart(_)
trimStart(s) ==
    IF Len(s) > 0 /\ SubSeq(s, 1, 1) \in WhiteSpace
    THEN trimStart(SubSeq(s, 2, Len(s))) ELSE s

RECURSIVE trimEnd(_)
trimEnd(s) ==
    IF Len(s) > 0 /\ SubSeq(s, Len(s), Len(s)) \in WhiteSpace
    THEN trimEnd(SubSeq(s, 1, Len(s) - 1)) ELSE s

trim(s) == trimEnd(trimStart(s))

\* the end of the longest run of characters from position i on that are
\* (inSet) / are not (~inSet) in cs: the position after the run
RECURSIVE RunEnd(_, _, _, _)
RunEnd(s, i, cs, inSet) ==
    IF i <= Len(s) /\ ((SubSeq(s, i, i) \in cs) <=> inSet)
    THEN RunEnd(s, i + 1, cs, inSet) ELSE i

\* `value || ""` followed by .toString(), for a string or undefined
orEmpty(value) == IF Truthy(value) THEN value ELSE ""

\* ------------------------------------------------- regular expressions
\* the atoms the patterns of detectVegStatus are built from: a literal, an
\* optional character of a class ([-\s]?), a word boundary (\b)
Lit(t) == [k |-> "lit", t |-> t, cs |-> {}]
Opt(cs) == [k |-> "opt", t |-> "", cs |-> cs]
WordBoundary == [k |-> "boundary", t |-> "", cs |-> {}]

\* the atoms pat[n..] match s from position i on
RECURSIVE MatchAt(_, _, _, _)
MatchAt(s, i, pat, n) ==
    IF n > Len(pat) THEN TRUE
    ELSE LET a == pat[n] IN
         IF a.k = "lit"
         THEN StartsWithAt(s, i, a.t) /\ MatchAt(s, i + Len(a.t), pat, n + 1)
         ELSE IF a.k = "opt"
         THEN \/ CharAt(s, i) \in a.cs /\ MatchAt(s, i + 1, pat, n + 1)
              \/ MatchAt(s, i, pat, n + 1)
         ELSE /\ IsWordChar(CharAt(s, i - 1)) # IsWordChar(CharAt(s, i))
              /\ MatchAt(s, i, pat, n + 1)

\* RegExp.prototype.test for a pattern that is a list of alternatives
RegexTest(alternatives, s) ==
    \E a \in 1 .. Len(alternatives) :
       \E i \in 1 .. Len(s) + 1 : MatchAt(s, i, alternatives[a], 1)

\* /non[-\s]?veg|non[-\s]?vegetarian|nonveg|non vegetarian|contains meat|
\*  contains chicken|contains egg|contains fish|contains mutton/i
NonVegPattern ==
    << <<Lit("non"), Opt({"-"} \cup WhiteSpace), Lit("veg")>>,
       <<Lit("non"), Opt({"-"} \cup WhiteSpace), Lit("vegetarian")>>,
       <<Lit("nonveg")>>,
       <<Lit("non vegetarian")>>,
       <<Lit("contains meat")>>,
       <<Lit("contains chicken")>>,
       <<Lit("contains egg")>>,
       <<Lit("contains fish")>>,
       <<Lit("contains mutton")>> >>

\* /vegetarian|veg\b|pure veg|suitable for vegetarians|veg\/veg|vegan/i
VegPattern ==
    << <<Lit("vegetarian")>>,
       <<Lit("veg"), WordBoundary>>,
       <<Lit("pure veg")>>,
       <<Lit("suitable for vegetarians")>>,
       <<Lit("veg/veg")>>,
       <<Lit("vegan")>> >>

\* ------------------------------------------------------ detectVegStatus
\* the text detectVegStatus tests: analysis, labels and name, lower-cased
combinedText(product) ==
    toLowerCase(orEmpty(product.harmful_ingredients_analysis) \o " "
                \o orEmpty(product.labels) \o " "
                \o orEmpty(IF Truthy(product.product_name)
                           THEN product.product_name ELSE product.name))

\* a detectVegStatus that tests the vegetarian pattern first
DetectVeg_vegFirst(product) ==
    LET combined == combinedText(product) IN
    IF RegexTest(VegPattern, combined) THEN "veg"
    ELSE IF RegexTest(NonVegPattern, combined) THEN "non-veg"
    ELSE "unknown"

detectVegStatus(product) ==
    LET combined == combinedText(product) IN
    IF RegexTest(NonVegPattern, combined) THEN "non-veg"
    ELSE IF RegexTest(VegPattern, combined) THEN "veg"
    ELSE "unknown"

\* ----------------------------------------------------- extractAllergens
\* the marker of the two patterns of extractAllergens, matched with /i
AllergenMarker == "potential allergens:"

\* the characters the first pattern's group ([^.\n\r]+) stops at
SentenceEnd == {"."} \cup LineBreaks

\* the positions the group of a pattern may start at when the marker is at
\* i: \s* is greedy and gives back what the group needs, so the group
\* starts after the longest whitespace run that leaves it a first character
GroupStarts(s, i, excluded) ==
    LET p == i + Len(AllergenMarker)
        w == RunEnd(s, p, WhiteSpace, TRUE)
    IN { j \in p .. w : j <= Len(s) /\ SubSeq(s, j, j) \notin excluded }

MatchesAt(s, i, excluded) ==
    /\ StartsWithAt(toLowerCase(s), i, AllergenMarker)
    /\ GroupStarts(s, i, excluded) # {}

\* RegExp.prototype.exec for /Potential Allergens:\s*(<group>)/i, where the
\* group is one or more characters not in `excluded`: the leftmost match
\* and its group
AllergenExec(s, excluded) ==
    IF \E i \in 1 .. Len(s) : MatchesAt(s, i, excluded)
    THEN LET i == CHOOSE k \in 1 .. Len(s) :
                     /\ MatchesAt(s, k, excluded)
                     /\ \A l \in 1 .. k - 1 : ~MatchesAt(s, l, excluded)
             starts == GroupStarts(s, i, excluded)
             j == CHOOSE k \in starts : \A l \in starts : l <= k
         IN [found |-> TRUE,
             group |-> SubSeq(s, j, RunEnd(s, j, excluded, FALSE) - 1)]
    ELSE [found |-> FALSE, group |-> ""]

\* `text.split(/[\n\r]/)[0]`
firstLine(text) == SubSeq(text, 1, RunEnd(text, 1, LineBreaks, FALSE) - 1)

\* an extractAllergens that reads the explicit field only
ExtractAllergens_fieldOnly(product) ==
    IF Truthy(product.allergens) /\ trim(product.allergens) # ""
    THEN product.allergens ELSE ""

extractAllergens(product) ==
    IF Truthy(product.allergens) /\ trim(product.allergens) # ""
    THEN product.allergens
    ELSE LET analysis == orEmpty(product.harmful_ingredients_analysis)
             m == AllergenExec(analysis, SentenceEnd)
             m2 == AllergenExec(analysis, {})
         IN IF analysis = "" THEN ""
            ELSE IF m.found THEN trim(m.group)
            ELSE IF m2.found THEN trim(firstLine(m2.group))
            ELSE ""

\* ------------------------------------------------------ getNutritionRow
\* the values a nutrition field may hold
JsNumber(n) == [t |-> "number", n |-> n, s |-> ""]
JsString(s) == [t |-> "string", n |-> 0, s |-> s]
JsNull == [t |-> "null", n |-> 0, s |-> ""]
JsUndefined == [t |-> "undefined", n |-> 0, s |-> ""]

\* a decimal literal: digits with at most one point, and a digit
IsDecimal(text) ==
    /\ \A i \in 1 .. Len(text) :
          OneOf(SubSeq(text, i, i), Digits) \/ SubSeq(text, i, i) = "."
    /\ \E i \in 1 .. Len(text) : OneOf(SubSeq(text, i, i), Digits)
    /\ \A i, j \in 1 .. Len(text) :
          (SubSeq(text, i, i) = "." /\ SubSeq(text, j, j) = ".") => i = j

\* Number(v), as far as getNutritionRow reads it: is it NaN, is it zero.
\* A string is trimmed; the empty string converts to 0.
Number(v) ==
    IF v.t = "number" THEN [nan |-> FALSE, zero |-> v.n = 0]
    ELSE LET text == trim(v.s) IN
         IF text = "" THEN [nan |-> FALSE, zero |-> TRUE]
         ELSE IF IsDecimal(text)
         THEN [nan |-> FALSE,
               zero |-> \A i \in 1 .. Len(text) :
                           SubSeq(text, i, i) \in {"0", "."}]
         ELSE [nan |-> TRUE, zero |-> FALSE]

\* the decimal digits of a natural number
RECURSIVE digitsOf(_)
digitsOf(n) ==
    LET d == SubSeq(Digits, (n % 10) + 1, (n % 10) + 1) IN
    IF n < 10 THEN d ELSE digitsOf(n \div 10) \o d

\* String(v)
String(v) == IF v.t = "number" THEN digitsOf(v.n) ELSE v.s

\* `nutrition && nutrition[key]`
nutritionValue(nutrition, key) ==
    IF key \in DOMAIN nutrition THEN nutrition[key] ELSE JsUndefined

\* a rendered row of the nutrition table
RowOf(label, key, value) == [label |-> label, key |-> key, value |-> value]

\* a getNutritionRow that suppresses nothing but absent values
NutritionRow_keepsZero(nutrition, label, key) ==
    LET v == nutritionValue(nutrition, key) IN
    IF v.t \in {"null", "undefined"} THEN Null
    ELSE Some(RowOf(label, key, String(v)))

\* getNutritionRow(label, key), with the nutrition object it closes over
getNutritionRow(nutrition, label, key) ==
    LET v == nutritionValue(nutrition, key)
        num == Number(v)
    IN IF v.t \in {"null", "undefined"} THEN Null
       ELSE IF ~num.nan
       THEN IF num.zero THEN Null ELSE Some(RowOf(label, key, String(v)))
       ELSE IF trim(String(v)) = "" THEN Null
       ELSE Some(RowOf(label, key, String(v)))

\* the rows of the nutrition table, in the order renderProduct lists them
NutrientRows ==
    << <<"Energy (kcal)", "energy_kcal">>, <<"Calories", "calories">>,
       <<"Carbs (g)", "carbohydrates">>, <<"Fat (g)", "fat">>,
       <<"Saturated fat (g)", "saturated_fat">>, <<"Protein (g)", "proteins">>,
       <<"Sugar (g)", "sugars">>, <<"Fiber (g)", "fiber">>,
       <<"Salt (g)", "salt">>, <<"Sodium (mg)", "sodium">> >>

\* -------------------------------------------------------- renderProduct
\* what renderProduct(body) shows of the product: the badge, the allergens
\* box (when the text is not empty) and the nutrition table (when the
\* nutrition object has a key), whose rows are those getNutritionRow gives
renderProduct(product) ==
    LET nutrition == product.nutrition
        allergens == extractAllergens(product)
        rows == [i \in 1 .. Len(NutrientRows) |->
                    getNutritionRow(nutrition, NutrientRows[i][1],
                                    NutrientRows[i][2])]
        shown == SelectSeq(rows, LAMBDA r : ~IsNull(r))
    IN [vegStatus |-> detectVegStatus(product),
        allergens |-> allergens,
        allergensBox |-> allergens # "",
        nutritionTable |-> DOMAIN nutrition # {},
        rows |-> IF DOMAIN nutrition # {}
                 THEN [i \in 1 .. Len(shown) |-> The(shown[i])]
                 ELSE <<>>]

\* =================================================================
\* The specification
\* =================================================================
NextFood ==
    \/ Food_pickFromGallery
    \/ Food_takePhoto
    \/ Food_AfterPermission
    \/ Food_AfterPicker
    \/ Food_AfterPrepare
    \/ Food_Reset
    \/ Food_uploadToBackend
    \/ \E u \in UploadIds : Food_AfterFetch(u)

NextBarcode ==
    \/ Bar_loadSaved
    \/ Bar_pickFromGallery
    \/ Bar_takePhoto
    \/ Bar_AfterPermission
    \/ Bar_AfterPicker
    \/ Bar_AfterPrepare
    \/ Bar_clearSelection
    \/ Bar_uploadImage
    \/ \E u \in UploadIds : Bar_AfterFetch(u)

NextBarcode24h ==
    \/ Bar24_AfterGetItem
    \/ Bar24_AfterWriteBack
    \/ Bar24_pickFromGallery
    \/ Bar24_takePhoto
    \/ Bar24_AfterPermission
    \/ Bar24_AfterPicker
    \/ Bar24_AfterPrepare
    \/ Bar24_clearSelection
    \/ Bar24_uploadImage
    \/ \E u \in UploadIds : Bar24_AfterManip(u)
    \/ \E u \in UploadIds : Bar24_AfterManipRetry(u)
    \/ \E u \in UploadIds : Bar24_AfterFetch(u)
    \/ \E u \in UploadIds : Bar24_AfterSave(u)

NextEnvironment ==
    \/ PermissionSettles
    \/ PickerSettles
    \/ \E u \in UploadIds : FetchSettles(u)
    \/ \E u \in UploadIds : ManipSettles(u)
    \/ Tick

Next == NextEnvironment \/ NextFood \/ NextBarcode \/ NextBarcode24h

Spec == Init /\ [][Next]_vars

\* =================================================================
\* PulseScanScreen.js (lines 40-537): the heart-rate screen
\* =================================================================
\* `new Date().toISOString().split('T')[0]`: the UTC day of a time, written
\* as a date of January 1970 (the clock stays within its first nine days)
DayOf(t) == t \div TWENTY_FOUR_HOURS
DayDigits == <<"1", "2", "3", "4", "5", "6", "7", "8", "9">>
isoDate(t) == "1970-01-0" \o DayDigits[DayOf(t) + 1]

\* `{ bpm: newBpm, timestamp: Date.now() }`
Reading(newBpm, t) == [bpm |-> newBpm, timestamp |-> t]

\* `updatedHistory[day] = readings`
WithDay(h, day, readings) ==
    [d \in DOMAIN h \cup {day} |-> IF d = day THEN readings ELSE h[d]]

\* what the slot may hold when the pulse screen mounts: nothing, a reading
\* of the day before, readings of the day before and of today, an
\* unparseable document
HeartStores ==
    { Null,
      Some(JSONstringify(
          WithDay(EmptyHistory, isoDate(T0 - TWENTY_FOUR_HOURS),
                  <<Reading(64, T0 - TWENTY_FOUR_HOURS)>>))),
      Some(JSONstringify(
          WithDay(WithDay(EmptyHistory, isoDate(T0 - TWENTY_FOUR_HOURS),
                          <<Reading(64, T0 - TWENTY_FOUR_HOURS)>>),
                  isoDate(T0), <<Reading(70, T0 - 1)>>))),
      Some(CorruptDoc) }

\* the bpm a PulseScanResult event may carry, and the value (in tenths) and
\* the sample count a PulseSample event may carry
Bpms == {-1, 0, 72}
SampleTenths == {1204, 1275}
SampleCounts == {30}

\* Math.round of a value given in tenths
MathRound(tenths) == (tenths + 5) \div 10

\* the `history` the PulseScanResult listener sees: the listeners are
\* registered once, by an effect without dependencies, so the saveBpm they
\* call is the one of the first render, whose `history` is useState's `{}`
ListenerHistory == EmptyHistory

\* a settled promise whose continuation has not run yet
Settled(calls) == \E i \in 1 .. Len(calls) : calls[i] \in {"resolved", "rejected"}

\* no continuation is ready to run
PulseQuiet ==
    /\ ~Settled(startCall) /\ ~Settled(stopCall)
    /\ pulseLoad.pc # "settled"

\* a button of the screen can be pressed: the dialog is modal
PulseUI == PulseQuiet /\ ~dialog

\* ------------------------------------------------------ the environment
\* AsyncStorage.getItem of loadHistory settles
HeartGetItemSettles ==
    /\ screen = "pulse" /\ pulseLoad.pc = "getItem"
    /\ \E ok \in BOOLEAN :
          pulseLoad' = [pulseLoad EXCEPT
                           !.pc = "settled",
                           !.outcome = IF ok THEN "read" ELSE "read-failed"]
    /\ UNCHANGED <<scanners, clock, lastAlert, pulseShown, heartHistory,
                   heartStore, pulseCalls, pulseNative>>

\* PulseModule.startScan settles: the scan runs, or the call is rejected
NativeStartSettles(i) ==
    /\ screen = "pulse" /\ PulseQuiet
    /\ i \in 1 .. Len(startCall) /\ startCall[i] = "pending"
    /\ \E ok \in BOOLEAN :
          /\ startCall' = [startCall EXCEPT
                              ![i] = IF ok THEN "resolved" ELSE "rejected"]
          /\ native' = IF ok THEN TRUE ELSE native
    /\ UNCHANGED <<scanners, clock, lastAlert, pulseShown, pulseHistory,
                   dialog, stopCall, handlers, events, scans>>

\* PulseModule.stopScan settles: the scan is stopped, or the call is
\* rejected, with the scan stopped or not
NativeStopSettles(i) ==
    /\ screen = "pulse" /\ PulseQuiet
    /\ i \in 1 .. Len(stopCall) /\ stopCall[i] = "pending"
    /\ \E ok \in BOOLEAN :
          /\ stopCall' = [stopCall EXCEPT
                             ![i] = IF ok THEN "resolved" ELSE "rejected"]
          /\ native' \in IF ok THEN {FALSE} ELSE {native, FALSE}
    /\ UNCHANGED <<scanners, clock, lastAlert, pulseShown, pulseHistory,
                   dialog, startCall, handlers, events, scans>>

\* the running scan emits a PulseSample event
NativeSample ==
    /\ screen = "pulse" /\ native /\ scans.samples < MaxSamples
    /\ \E v \in SampleTenths, n \in SampleCounts :
          events' = Append(events, [type |-> "PulseSample", value |-> v,
                                    samples |-> n, bpm |-> 0])
    /\ scans' = [scans EXCEPT !.samples = @ + 1]
    /\ UNCHANGED <<scanners, clock, lastAlert, pulseShown, pulseHistory,
                   pulseCalls, native>>

\* the running scan ends and emits its PulseScanResult event
NativeResult ==
    /\ screen = "pulse" /\ native
    /\ \E b \in Bpms :
          events' = Append(events, [type |-> "PulseScanResult", value |-> 0,
                                    samples |-> 0, bpm |-> b])
    /\ native' = FALSE
    /\ scans' = [scans EXCEPT !.results = @ + 1]
    /\ UNCHANGED <<scanners, clock, lastAlert, pulseShown, pulseHistory,
                   pulseCalls>>

\* a day passes
DayPasses ==
    /\ screen = "pulse" /\ PulseQuiet
    /\ ticks < budget.ticks
    /\ now' = now + TWENTY_FOUR_HOURS
    /\ ticks' = ticks + 1
    /\ UNCHANGED <<scanners, budget, lastAlert, pulseState>>

\* ---------------------------------------------------------- the screen
\* loadHistory after `await AsyncStorage.getItem('heartRateHistory')`
Pulse_AfterGetItem ==
    /\ screen = "pulse" /\ pulseLoad.pc = "settled"
    /\ LET data == pulseLoad.s
           outcome ==
               IF pulseLoad.outcome = "read-failed" THEN "read-failed"
               ELSE IF IsNull(data) THEN "empty"
               ELSE IF ~JSONparseOk(The(data)) THEN "parse-failed"
               ELSE "loaded"
       IN
       /\ heartHistory' = IF outcome = "loaded" THEN JSONparse(The(data))
                          ELSE heartHistory
       /\ pulseLoad' = [pulseLoad EXCEPT !.pc = "done", !.outcome = outcome]
    /\ UNCHANGED <<scanners, clock, lastAlert, pulseShown, heartStore,
                   pulseCalls, pulseNative>>

\* the PulseSample listener
Pulse_OnSample ==
    /\ screen = "pulse" /\ PulseQuiet
    /\ Len(events) > 0 /\ Head(events).type = "PulseSample"
    /\ currentValue' = MathRound(Head(events).value)
    /\ sampleCount' = Head(events).samples
    /\ events' = Tail(events)
    /\ UNCHANGED <<scanners, clock, lastAlert, bpm, scanning, pulseHistory,
                   pulseCalls, native, scans>>

\* `newBpm >= 0`
Detected_nonNegative(newBpm) == newBpm >= 0

\* `newBpm > 0`
Pulse_detected(newBpm) == newBpm > 0

\* saveBpm(newBpm) up to `await AsyncStorage.setItem(...)`: the history it
\* extends is the one the listener sees
saveBpm(newBpm, t) ==
    LET today == isoDate(t)
        updatedHistory == ListenerHistory
        readings == IF today \in DOMAIN updatedHistory
                    THEN updatedHistory[today] ELSE <<>>
    IN WithDay(updatedHistory, today, Append(readings, Reading(newBpm, t)))

\* the PulseScanResult listener, up to the `await` inside saveBpm for a
\* bpm above 0, and to its end otherwise
Pulse_OnResult ==
    /\ screen = "pulse" /\ PulseQuiet
    /\ Len(events) > 0 /\ Head(events).type = "PulseScanResult"
    /\ events' = Tail(events)
    /\ LET newBpm == Head(events).bpm IN
       IF Pulse_detected(newBpm)
       THEN /\ bpm' = Some(newBpm)
            /\ heartHistory' = saveBpm(newBpm, now)
            /\ \E writeOk \in BOOLEAN :
                  heartStore' = IF writeOk
                                THEN Some(JSONstringify(saveBpm(newBpm, now)))
                                ELSE heartStore
            /\ handlers' = Append(handlers, "setItem")
            /\ scans' = [scans EXCEPT !.saved = @ + 1]
            /\ UNCHANGED <<scanning, sampleCount, currentValue, lastAlert>>
       ELSE /\ lastAlert' = Alert("Detection Failed", NoMsg)
            /\ scanning' = FALSE
            /\ sampleCount' = 0
            /\ currentValue' = 0
            /\ handlers' = Append(handlers, "done")
            /\ UNCHANGED <<bpm, heartHistory, heartStore, scans>>
    /\ UNCHANGED <<scanners, clock, pulseLoad, dialog, startCall, stopCall,
                   native>>

\* the PulseScanResult listener after `await saveBpm(newBpm)`
Pulse_AfterSave(h) ==
    /\ screen = "pulse" /\ PulseQuiet
    /\ h \in 1 .. Len(handlers) /\ handlers[h] = "setItem"
    /\ scanning' = FALSE
    /\ sampleCount' = 0
    /\ currentValue' = 0
    /\ handlers' = [handlers EXCEPT ![h] = "done"]
    /\ UNCHANGED <<scanners, clock, lastAlert, bpm, pulseHistory, dialog,
                   startCall, stopCall, pulseNative>>

\* the Start Measurement button (rendered when `!scanning && !bpm`):
\* startNativeScan opens the dialog
Pulse_startNativeScan ==
    /\ screen = "pulse" /\ PulseUI
    /\ ~scanning /\ IsNull(bpm)
    /\ scans.started < MaxScans
    /\ dialog' = TRUE
    /\ lastAlert' = Alert("How to Measure", NoMsg)
    /\ UNCHANGED <<scanners, clock, pulseShown, pulseHistory, startCall,
                   stopCall, handlers, pulseNative>>

\* the Cancel button of the dialog
Pulse_DialogCancel ==
    /\ screen = "pulse" /\ PulseQuiet /\ dialog
    /\ dialog' = FALSE
    /\ UNCHANGED <<scanners, clock, lastAlert, pulseShown, pulseHistory,
                   startCall, stopCall, handlers, pulseNative>>

\* the Start button of the dialog, up to `await PulseModule.startScan(30)`
Pulse_DialogStart ==
    /\ screen = "pulse" /\ PulseQuiet /\ dialog
    /\ dialog' = FALSE
    /\ scanning' = TRUE
    /\ sampleCount' = 0
    /\ currentValue' = 0
    /\ bpm' = Null
    /\ startCall' = Append(startCall, "pending")
    /\ scans' = [scans EXCEPT !.started = @ + 1, !.cancelled = "no"]
    /\ UNCHANGED <<scanners, clock, lastAlert, pulseHistory, stopCall,
                   handlers, native, events>>

\* after `await PulseModule.startScan(30)`: nothing follows it, and the
\* catch block resets scanning and alerts
Pulse_AfterStart(i) ==
    /\ screen = "pulse"
    /\ i \in 1 .. Len(startCall) /\ startCall[i] \in {"resolved", "rejected"}
    /\ startCall' = [startCall EXCEPT ![i] = "done"]
    /\ IF startCall[i] = "rejected"
       THEN /\ scanning' = FALSE
            /\ lastAlert' = Alert("Error", Msg("start", 0, ""))
       ELSE UNCHANGED <<scanning, lastAlert>>
    /\ UNCHANGED <<scanners, clock, bpm, sampleCount, currentValue,
                   pulseHistory, dialog, stopCall, handlers, pulseNative>>

\* the Cancel button (rendered when `scanning`): stopScan up to
\* `await PulseModule.stopScan()`
Pulse_stopScan ==
    /\ screen = "pulse" /\ PulseUI /\ scanning
    /\ scans.stops < MaxStops
    /\ stopCall' = Append(stopCall, "pending")
    /\ scans' = [scans EXCEPT !.stops = @ + 1]
    /\ UNCHANGED <<scanners, clock, lastAlert, pulseShown, pulseHistory,
                   dialog, startCall, handlers, native, events>>

\* stopScan after `await PulseModule.stopScan()`; its catch block only logs
Pulse_AfterStop(i) ==
    /\ screen = "pulse"
    /\ i \in 1 .. Len(stopCall) /\ stopCall[i] \in {"resolved", "rejected"}
    /\ stopCall' = [stopCall EXCEPT ![i] = "done"]
    /\ IF stopCall[i] = "resolved"
       THEN /\ scanning' = FALSE
            /\ sampleCount' = 0
            /\ currentValue' = 0
       ELSE UNCHANGED <<scanning, sampleCount, currentValue>>
    /\ scans' = [scans EXCEPT !.cancelled = IF stopCall[i] = "resolved"
                                           THEN "stopped" ELSE "failed"]
    /\ UNCHANGED <<scanners, clock, lastAlert, bpm, pulseHistory, dialog,
                   startCall, handlers, native, events>>

\* the Measure Again button (rendered when `bpm`)
Pulse_MeasureAgain ==
    /\ screen = "pulse" /\ PulseUI /\ ~IsNull(bpm)
    /\ bpm' = Null
    /\ UNCHANGED <<scanners, clock, lastAlert, scanning, sampleCount,
                   currentValue, pulseHistory, pulseCalls, pulseNative>>

\* ------------------------------------------------ the pulse screen alone
\* the pulse screen mounts: loadHistory issues its getItem
PulseInit ==
    /\ screen = "pulse"
    /\ image = Null
    /\ result = Null
    /\ uploading = FALSE
    /\ serverResult = Null
    /\ loading = FALSE
    /\ savedFoods = <<>>
    /\ storage = Null
    /\ now = T0
    /\ ticks = 0
    /\ lastAlert = NoAlert
    /\ acq = IdleAcq
    /\ acquired = 0
    /\ load = [LoadFrame("food", Null) EXCEPT !.pc = "done"]
    /\ uploads = [u \in UploadIds |-> IdleUpload]
    /\ ended = EndedOf("none", <<>>)
    /\ saves = [calls |-> 0, ok |-> 0]
    /\ budget = [acquire |-> 0, uploads |-> 0, ticks |-> MaxTicks]
    /\ productShown = NoProduct
    /\ rendered = Null
    /\ bpm = Null
    /\ scanning = FALSE
    /\ sampleCount = 0
    /\ currentValue = 0
    /\ heartHistory = EmptyHistory
    /\ heartStore \in HeartStores
    /\ pulseLoad = [pc |-> "getItem", s |-> heartStore, outcome |-> "none"]
    /\ dialog = FALSE
    /\ startCall = <<>>
    /\ stopCall = <<>>
    /\ native = FALSE
    /\ events = <<>>
    /\ handlers = <<>>
    /\ scans = NoScans

NextPulseEnvironment ==
    \/ HeartGetItemSettles
    \/ \E i \in 1 .. MaxScans : NativeStartSettles(i)
    \/ \E i \in 1 .. MaxStops : NativeStopSettles(i)
    \/ NativeSample
    \/ NativeResult
    \/ DayPasses

NextPulse ==
    \/ Pulse_AfterGetItem
    \/ Pulse_OnSample
    \/ Pulse_OnResult
    \/ \E h \in 1 .. MaxScans : Pulse_AfterSave(h)
    \/ Pulse_startNativeScan
    \/ Pulse_DialogCancel
    \/ Pulse_DialogStart
    \/ \E i \in 1 .. MaxScans : Pulse_AfterStart(i)
    \/ Pulse_stopScan
    \/ \E i \in 1 .. MaxStops : Pulse_AfterStop(i)
    \/ Pulse_MeasureAgain

PulseSpec == PulseInit /\ [][NextPulseEnvironment \/ NextPulse]_vars

\* PulseSpec with the scheduling of the event loop and of the native
\* module: a pending promise settles, a continuation or a listener that
\* can run does run, and a scan that runs emits its result (startScan(30)
\* asks for a scan of 30 seconds).
PulseFairSpec ==
    /\ PulseSpec
    /\ WF_vars(HeartGetItemSettles) /\ WF_vars(Pulse_AfterGetItem)
    /\ \A i \in 1 .. MaxScans :
          WF_vars(NativeStartSettles(i)) /\ WF_vars(Pulse_AfterStart(i))
    /\ \A i \in 1 .. MaxStops :
          WF_vars(NativeStopSettles(i)) /\ WF_vars(Pulse_AfterStop(i))
    /\ WF_vars(NativeResult)
    /\ WF_vars(Pulse_OnSample) /\ WF_vars(Pulse_OnResult)
    /\ \A h \in 1 .. MaxScans : WF_vars(Pulse_AfterSave(h))

\* -------------------------------------------------- the presenter alone
\* the texts and values a server may put in the fields of a product
AnalysisTexts ==
    { Undefined, "",
      "Contains egg and milk",
      "Suitable for vegetarians",
      "Info. Potential Allergens: milk, soy. Contains sugar.\nSee label",
      "potential allergens:\n nuts\nvegan",
      "Potential Allergens:.",
      "Non-Veg: contains chicken" }

LabelTexts == {Undefined, "Pure Veg", "Vegetable oil"}

ProductNames == {Undefined, "NON VEG biryani"}

Names == {Undefined, "Veg/Veg thali"}

AllergenFields == {Undefined, "", "   ", " Milk, Nuts "}

Nutritions ==
    { <<>>,
      [sugars |-> JsNumber(0), proteins |-> JsNumber(5)],
      [sugars |-> JsString("0"), proteins |-> JsString("5 g"),
       sodium |-> JsString(" 12 ")],
      [fat |-> JsString(""), salt |-> JsString("  "), fiber |-> JsNull],
      [energy_kcal |-> JsString("0.0"), calories |-> JsNumber(120),
       carbohydrates |-> JsString("n/a")] }

Products ==
    { ProductOf(a, l, pn, n, al, nu) :
         a \in AnalysisTexts, l \in LabelTexts, pn \in ProductNames,
         n \in Names, al \in AllergenFields, nu \in Nutritions }

\* ------------------------------------------ the picker continuation alone
\* the assets a picker may return: with and without a uri, a file name, a
\* type and a size; a jpeg and a png
AssetShapes ==
    { [uri |-> u, width |-> LargeWidth, height |-> LargeHeight,
       fileName |-> f, type |-> t] :
         u \in {PickedUri, "file:///dir/shot.png", Undefined},
         f \in {Undefined, "picked.jpg"}, t \in {Undefined, "image"} }
    \cup { [uri |-> PickedUri, width |-> NoWidth, height |-> NoHeight,
            fileName |-> Undefined, type |-> Undefined] }

\* the results a picker may resolve to: no asset list, an empty one, one
\* asset, two assets; with and without a uri of its own; dismissed or not
PickerShapes ==
    { [cancelled |-> c[1], canceled |-> c[2], uri |-> u[1], width |-> u[2],
       height |-> u[3], assets |-> as] :
         c \in {<<"false", Undefined>>, <<Undefined, "false">>,
                <<Undefined, "true">>},
         u \in {<<Undefined, NoWidth, NoHeight>>,
                <<PickedUri, SmallWidth, SmallHeight>>,
                <<PickedUri, NoWidth, NoHeight>>},
         as \in {<<>>} \cup {<<a>> : a \in AssetShapes}
                \cup {<<a, [uri |-> "file:///other.jpg", width |-> SmallWidth,
                            height |-> SmallHeight, fileName |-> "other.jpg",
                            type |-> "image"]>> : a \in AssetShapes} }

\* the 24-hour screen, with or without an image and a result, at the
\* moment a picker promise has settled
PickedInit ==
    /\ screen = "barcode24h"
    /\ image \in {Null, Some(ImageOf(ManipUri, "old.jpg", "image"))}
    /\ result = Null
    /\ uploading = FALSE
    /\ serverResult = Null
    /\ loading = FALSE
    /\ savedFoods = <<>>
    /\ storage = Null
    /\ now = T0
    /\ ticks = 0
    /\ lastAlert = NoAlert
    /\ \E kind \in {"gallery", "camera"} :
       \E res \in {Some(x) : x \in PickerShapes} \cup {Null} :
          acq = [IdleAcq EXCEPT
                    !.pc = "picked", !.kind = kind, !.res = res,
                    !.perm = Some([status |-> "granted", granted |-> "true"])]
    /\ acquired = 1
    /\ load = [LoadFrame(screen, storage) EXCEPT !.pc = "done",
                                                 !.outcome = "empty"]
    /\ uploads = [u \in UploadIds |-> IdleUpload]
    /\ ended = EndedOf("none", <<>>)
    /\ saves = [calls |-> 0, ok |-> 0]
    /\ budget = [acquire |-> 1, uploads |-> 0, ticks |-> 0]
    /\ productShown = NoProduct
    /\ rendered = Null
    /\ PulseUnmounted

\* the continuation of the picker and, for a usable result, of prepareImage
PickedSpec == PickedInit /\ [][Bar24_AfterPicker \/ Bar24_AfterPrepare]_vars

\* the 24-hour screen is mounted and a server result with some product is
\* about to be rendered
RenderInit ==
    /\ screen = "barcode24h"
    /\ image = Null
    /\ result = Null
    /\ uploading = FALSE
    /\ serverResult = Null
    /\ loading = FALSE
    /\ savedFoods = <<>>
    /\ storage = Null
    /\ now = T0
    /\ ticks = 0
    /\ lastAlert = NoAlert
    /\ acq = IdleAcq
    /\ acquired = 0
    /\ load = [LoadFrame(screen, storage) EXCEPT !.pc = "done",
                                                 !.outcome = "empty"]
    /\ uploads = [u \in UploadIds |-> DoneUpload]
    /\ ended = EndedOf("success", <<"json">>)
    /\ saves = [calls |-> 0, ok |-> 0]
    /\ budget = [acquire |-> 0, uploads |-> 0, ticks |-> 0]
    /\ productShown \in Products
    /\ rendered = Null
    /\ PulseUnmounted

\* the render of the server result: renderProduct(serverResult.body)
Render ==
    /\ rendered = Null
    /\ rendered' = Some(renderProduct(productShown))
    /\ UNCHANGED <<screen, image, foodState, barcodeState, history, clock,
                   lastAlert, acq, acquired, uploads, ended, productShown,
                   pulseState>>

RenderSpec == RenderInit /\ [][Render]_vars

\* The steps of upload u that need no user: its promises settle (a fetch
\* resolves or rejects, the manipulator and the storage answer) and the
\* event loop runs the continuation.
UploadStep(u) ==
    \/ FetchSettles(u)
    \/ ManipSettles(u)
    \/ Food_AfterFetch(u)
    \/ Bar_AfterFetch(u)
    \/ Bar24_AfterManip(u)
    \/ Bar24_AfterManipRetry(u)
    \/ Bar24_AfterFetch(u)
    \/ Bar24_AfterSave(u)

\* The continuations of a settled permission / picker promise: microtasks
\* the event loop runs before anything else.
AcquireStep ==
    \/ Food_AfterPermission \/ Food_AfterPicker
    \/ Bar_AfterPermission \/ Bar_AfterPicker
    \/ Bar24_AfterPermission \/ Bar24_AfterPicker

\* Spec with the scheduling of the event loop: a continuation that can run
\* does run, and a pending request settles.
FairSpec ==
    /\ Spec
    /\ WF_vars(AcquireStep)
    /\ \A u \in UploadIds : WF_vars(UploadStep(u))

\* =================================================================
\* Properties
\* =================================================================
BarcodeScreens == {"barcode", "barcode24h"}

\* the screens whose upload is a multipart form with a field name
Multipart == screen \in {"food", "barcode"}

\* the list a fresh mount would read from the slot
PersistedList ==
    IF IsNull(storage) THEN <<>>
    ELSE IF JSONparseOk(The(storage)) THEN JSONparse(The(storage))
    ELSE <<>>

\* a record the prune window excludes at time t
Stale(item, t) ==
    item.when = NoWhen \/ (t - item.when) >= TWENTY_FOUR_HOURS

NoStale(list, t) == \A i \in 1 .. Len(list) : ~Stale(list[i], t)

NewestFirst(list) ==
    \A i, j \in 1 .. Len(list) : i < j => list[i].when >= list[j].when

NoneInFlight == \A u \in UploadIds : ~InFlight(u)

\* the in-flight indicator of the mounted screen
Indicator == IF screen = "food" THEN uploading ELSE loading

\* the result the mounted screen shows: its field name and its body
ResultField ==
    IF screen = "food"
    THEN IF IsNull(result) THEN Null ELSE Some(The(result).fieldNameUsed)
    ELSE IF IsNull(serverResult) THEN Null ELSE Some(The(serverResult).field)

ResultBody ==
    IF screen = "food"
    THEN IF IsNull(result) THEN Null ELSE Some(The(result).body)
    ELSE IF IsNull(serverResult) THEN Null ELSE Some(The(serverResult).body)

\* this step is a step of upload call u
StepOf(u) == uploads'[u] # uploads[u]

\* this step ends upload call u
Ends(u) == InFlight(u) /\ uploads'[u].pc \in {"idle", "done"}

\* this step is the continuation of upload u's fetch, which got a response
GotResponse(u) ==
    uploads[u].pc = "fetched" /\ StepOf(u) /\ ~IsNull(uploads[u].resp)

\* the mount-time load ends in this step, having read and pruned the slot
LoadCompleted ==
    load.pc # "done" /\ load'.pc = "done" /\ load'.outcome = "loaded"

\* the saveResult of upload u ends in this step, its write having succeeded
SaveCompleted(u) ==
    uploads[u].pc = "saving" /\ uploads'[u].pc = "done"
    /\ uploads[u].write = "ok"

\* C1: on a barcode screen mounted over an empty slot, once N saveResult
\* calls have been made and all have succeeded (the records all inside the
\* prune window), savedFoods and the persisted list hold exactly min(N, 50)
\* records, the same ones, newest first.
C1_HistoryCap ==
    (/\ screen \in BarcodeScreens
     /\ IsNull(load.s)
     /\ NoneInFlight
     /\ saves.ok = saves.calls
     /\ now - T0 < TWENTY_FOUR_HOURS)
    => /\ Len(savedFoods) = Min(saves.calls, HISTORY_CAP)
       /\ PersistedList = savedFoods
       /\ NewestFirst(savedFoods)

\* C2: on the 24-hour screen, when the mount-time load completes and when a
\* saveResult completes, neither savedFoods nor the persisted list holds a
\* record that is without `when` or 24 hours or more old at the time the
\* operation read the clock.
C2_PruneWindow ==
    [][screen = "barcode24h" =>
        /\ LoadCompleted =>
              /\ NoStale(savedFoods', load'.t)
              /\ NoStale(PersistedList', load'.t)
        /\ \A u \in UploadIds :
              SaveCompleted(u) =>
                 LET t == The(uploads[u].preview).when IN
                 /\ NoStale(savedFoods', t)
                 /\ NoStale(PersistedList', t)]_vars

\* C3: when a saveResult(record) completes, its write having succeeded, the
\* list a fresh mount would load has that record as its first element.
C3_RoundTrip ==
    [][/\ \A u \in UploadIds :
             (screen = "barcode24h" /\ SaveCompleted(u)) =>
                 /\ Len(PersistedList') > 0
                 /\ PersistedList'[1] = The(uploads[u].preview)
       /\ (screen = "barcode" /\ saves'.ok = saves.ok + 1) =>
                 /\ Len(PersistedList') > 0
                 /\ PersistedList'[1] = The(serverResult')]_vars

\* C4: a multipart upload sends "file" first; it sends "image" only from the
\* continuation of the "file" request when that returned a non-2xx response;
\* a 2xx response ends the upload with the field name of that request
\* recorded in the result; no upload sends more than two requests.
C4_FieldOrder ==
    [][Multipart =>
        \A u \in UploadIds :
           /\ (uploads'[u].pc = "fetch" /\ uploads[u].pc # "fetch") =>
                 \/ /\ uploads[u].pc = "idle"
                    /\ uploads'[u].sent = <<"file">>
                 \/ /\ uploads[u].pc = "fetched"
                    /\ uploads[u].sent = <<"file">>
                    /\ ~IsNull(uploads[u].resp)
                    /\ ~RespOk(The(uploads[u].resp))
                    /\ uploads'[u].sent = <<"file", "image">>
           /\ (GotResponse(u) /\ RespOk(The(uploads[u].resp))) =>
                 /\ Ends(u)
                 /\ ResultField' = Some(fieldNames[uploads[u].field])
           /\ Len(uploads'[u].sent) <= 2]_vars

\* C5: when the "image" request of a multipart upload, sent after the "file"
\* request, returns a non-2xx response, the upload ends with the failure
\* alert that carries the status and the body of that response; no result is
\* set and nothing is saved to the history.
C5_TotalFailure ==
    [][Multipart =>
        \A u \in UploadIds :
           (/\ GotResponse(u)
            /\ uploads[u].sent = <<"file", "image">>
            /\ ~RespOk(The(uploads[u].resp)))
           => LET resp == The(uploads[u].resp) IN
              /\ Ends(u)
              /\ ended' = EndedOf("failed", <<"file", "image">>)
              /\ lastAlert' = Alert("Upload failed",
                                    Msg("status", resp.status, resp.text))
              /\ UNCHANGED <<result, serverResult, savedFoods, storage,
                             saves>>]_vars

\* a multipart upload failed on both field names and showed the status and
\* body of the second response
C5_Witness ==
    /\ Multipart
    /\ ended = EndedOf("failed", <<"file", "image">>)
    /\ lastAlert = Alert("Upload failed", Msg("status", 500, "boom"))
    /\ IsNull(ResultBody)

\* C6: when an upload gets a 2xx response whose body is not valid JSON, it
\* shows no failure alert and sets a result whose body is
\* { rawText: <the body text of the response> }.
C6_ParseFallback ==
    [][\A u \in UploadIds :
          (/\ GotResponse(u)
           /\ RespOk(The(uploads[u].resp))
           /\ The(uploads[u].resp).text \notin JsonTexts)
          => /\ lastAlert' = lastAlert
             /\ ResultBody' = Some(BodyOf(Undefined, Undefined, Undefined,
                                          The(uploads[u].resp).text))]_vars

\* C7: on every screen the state in which no upload call is in flight and
\* the in-flight indicator is false always comes back (so an indicator that
\* became true becomes false again, and every upload in flight ends); the
\* step that ends an upload leaves the indicator false; an upload shows an
\* alert only in the step that ends it, and there only if it fails: the
\* "Upload failed" alert.
C7_NoStuckLoading ==
    /\ []<>(NoneInFlight /\ ~Indicator)
    /\ [][\A u \in UploadIds :
             (InFlight(u) /\ StepOf(u)) =>
                IF Ends(u)
                THEN /\ Indicator' = FALSE
                     /\ IF ended'.outcome = "failed"
                        THEN lastAlert'.title = "Upload failed"
                        ELSE lastAlert' = lastAlert
                ELSE /\ lastAlert' = lastAlert
                     /\ ended' = ended]_vars

\* an upload that was in flight has failed, its alert is shown and the
\* indicator is false again
C7_Witness ==
    /\ ended.outcome = "failed"
    /\ Len(ended.sent) > 0
    /\ lastAlert.title = "Upload failed"
    /\ NoneInFlight
    /\ ~Indicator

\* C8: at most one upload call of the mounted screen is in flight, and no
\* upload call starts while the in-flight indicator is true.
C8_OneUpload ==
    [][/\ \A u, v \in UploadIds :
             (uploads'[u].pc \notin {"idle", "done"}
              /\ uploads'[v].pc \notin {"idle", "done"}) => u = v
       /\ \A u \in UploadIds :
             (~InFlight(u) /\ uploads'[u].pc \notin {"idle", "done"})
             => ~Indicator]_vars

\* C9: when the picker / camera promise resolved with a dismissal, in either
\* spelling, the continuation ends the acquisition call (no prepareImage)
\* and leaves image, result, the indicators and the history unchanged.
C9_CancelNoEffect ==
    [][(/\ acq.pc = "picked"
        /\ acq' # acq
        /\ ~IsNull(acq.res)
        /\ Dismissed(The(acq.res)))
       => /\ acq' = IdleAcq
          /\ UNCHANGED <<image, result, serverResult, uploading, loading,
                         savedFoods, storage>>]_vars

\* C10: the picker / camera is launched only by the continuation of the
\* permission request, and only if the response grants access; when the
\* response does not grant access the acquisition call ends, the
\* "Permission required" alert is shown, and image and result are unchanged.
C10_PermissionGating ==
    [][/\ (acq'.pc = "picker" /\ acq.pc # "picker") =>
             /\ acq.pc = "permitted"
             /\ Grants(The(acq.perm))
       /\ (acq.pc = "permitted" /\ acq' # acq /\ ~Grants(The(acq.perm))) =>
             /\ acq' = IdleAcq
             /\ lastAlert'.title = "Permission required"
             /\ UNCHANGED <<image, result, serverResult>>]_vars

\* a permission was refused while an image was selected: the alert is shown,
\* the call has ended, the image is still there
C10_Witness ==
    /\ lastAlert.title = "Permission required"
    /\ acq = IdleAcq
    /\ acquired = MaxAcquire
    /\ ~IsNull(image)

\* upload u ends in this step with an encoding error: the failure alert of
\* the manipulator, no request sent, no result set, nothing saved
EncodingFailed(u) ==
    /\ Ends(u)
    /\ ended' = EndedOf("failed", <<>>)
    /\ lastAlert'.title = "Upload failed"
    /\ lastAlert'.msg.kind \in {"manipulate", "base64"}
    /\ loading' = FALSE
    /\ UNCHANGED <<serverResult, savedFoods, storage, saves>>

\* C11: on the 24-hour screen, when the resize-plus-base64 manipulation
\* rejects, the upload makes the base64-only manipulation, once (it is made
\* only then, and never followed by another manipulation); when that one
\* rejects or yields no base64 payload the upload ends with an encoding
\* error, no request sent, no result set and nothing saved; when it yields
\* a payload the one request is sent.
C11_EncodingFallback ==
    [][screen = "barcode24h" =>
        \A u \in UploadIds :
           /\ (uploads[u].pc = "manipulated" /\ StepOf(u)
               /\ uploads[u].manip = "rejects")
              => /\ uploads'[u].pc = "manip2"
                 /\ uploads'[u].sent = <<>>
                 /\ ~uploads[u].retried
                 /\ UNCHANGED <<serverResult, savedFoods, storage, saves,
                                lastAlert, loading>>
           /\ (uploads'[u].pc = "manip2" /\ uploads[u].pc # "manip2")
              => uploads[u].pc = "manipulated" /\ uploads[u].manip = "rejects"
           /\ (uploads[u].pc = "manipulated2" /\ StepOf(u))
              => IF uploads[u].manip = "base64"
                 THEN /\ uploads'[u].pc = "fetch"
                      /\ uploads'[u].sent = <<"json">>
                 ELSE EncodingFailed(u)]_vars

\* the retry was made and rejected: the upload failed without a request
C11_Witness ==
    /\ screen = "barcode24h"
    /\ ended = EndedOf("failed", <<>>)
    /\ lastAlert = Alert("Upload failed", Msg("manipulate", 0, ""))
    /\ ~loading
    /\ IsNull(serverResult)

\* C12: an upload of the 24-hour screen sends at most one request, the JSON
\* POST, and has sent exactly that one when it gets a response; a non-2xx
\* response ends the upload in the continuation of that request with the
\* failure alert that carries the status and the body of the response, no
\* result set and no record saved.
C12_JsonPolicy ==
    [][screen = "barcode24h" =>
        \A u \in UploadIds :
           /\ Len(uploads'[u].sent) <= 1
           /\ (uploads'[u].sent # uploads[u].sent /\ uploads'[u].sent # <<>>)
              => /\ uploads[u].sent = <<>>
                 /\ uploads'[u].sent = <<"json">>
                 /\ uploads'[u].pc = "fetch"
           /\ GotResponse(u) => uploads[u].sent = <<"json">>
           /\ (GotResponse(u) /\ ~RespOk(The(uploads[u].resp)))
              => LET resp == The(uploads[u].resp) IN
                 /\ Ends(u)
                 /\ ended' = EndedOf("failed", <<"json">>)
                 /\ lastAlert' = Alert("Upload failed",
                                       Msg("status", resp.status, resp.text))
                 /\ UNCHANGED <<serverResult, savedFoods, storage, saves>>]_vars

\* the one JSON request was rejected with 415: the upload failed with that
\* status and body, and no result is shown
C12_Witness ==
    /\ screen = "barcode24h"
    /\ ended = EndedOf("failed", <<"json">>)
    /\ lastAlert = Alert("Upload failed",
                         Msg("status", 415, "unsupported field"))
    /\ IsNull(serverResult)
    /\ saves.calls = 0

\* C13: on every screen the continuation of prepareImage ends the
\* acquisition call with the selected image set, to the manipulated image
\* or, the manipulation having failed, to a record that carries the uri
\* prepareImage was called with; it shows no alert.
C13_PrepareNonFatal ==
    [][(acq.pc = "prepare" /\ acq' # acq)
       => LET uri == The(acq.request).uri IN
          /\ acq' = IdleAcq
          /\ ~IsNull(image')
          /\ The(image').uri \in {ManipUri, uri}
          /\ UNCHANGED <<lastAlert, ended>>]_vars

\* the manipulation failed on the food scanner: the selected image is the
\* picked file itself and no alert was shown
C13_Witness ==
    /\ screen = "food"
    /\ acq = IdleAcq
    /\ ~IsNull(image)
    /\ The(image).uri = PickedUri
    /\ lastAlert = NoAlert

\* the width of the image the picker returned
SourceWidth(res) ==
    IF Len(res.assets) > 0 THEN res.assets[1].width ELSE res.width

\* C14: while prepareImage waits for the manipulator, the request it made
\* holds a resize exactly when the source image is wider than maxWidth, and
\* it asks for JPEG at the given quality.
C14_ConditionalResize ==
    (acq.pc = "prepare" /\ ~Dismissed(The(acq.res)))
    => LET request == The(acq.request)
           resized == \E i \in 1 .. Len(request.actions) :
                         request.actions[i].resize.width = DefaultMaxWidth
       IN /\ resized <=> SourceWidth(The(acq.res)) > DefaultMaxWidth
          /\ request.format = "jpeg"
          /\ request.compress = DefaultCompress

\* text holds the keyword somewhere
Holds(text, keyword) ==
    \E i \in 1 .. Len(text) : StartsWithAt(text, i, keyword)

\* the non-vegetarian keywords: "non veg" in its spellings, and the
\* "contains <meat, egg, fish>" phrases
NonVegKeywords ==
    {"nonveg", "non-veg"} \cup {"non" \o c \o "veg" : c \in WhiteSpace}
    \cup {"contains meat", "contains chicken", "contains egg",
          "contains fish", "contains mutton"}

\* the vegetarian keywords; "veg" counts as a word of its own only
MentionsVeg(text) ==
    \/ Holds(text, "vegetarian")
    \/ Holds(text, "vegan")
    \/ \E i \in 1 .. Len(text) :
          StartsWithAt(text, i, "veg") /\ ~IsWordChar(CharAt(text, i + 3))

MentionsNonVeg(text) == \E k \in NonVegKeywords : Holds(text, k)

\* the product rendered has this analysis text and no labels and names
OnlyAnalysis(text) ==
    productShown =
       [productShown EXCEPT !.harmful_ingredients_analysis = text,
                            !.labels = Undefined, !.product_name = Undefined,
                            !.name = Undefined]

\* C15: the status shown for a product is non-vegetarian when the
\* lower-cased analysis, labels and name text holds a non-vegetarian
\* keyword, whether or not it holds a vegetarian one; else vegetarian when
\* it holds a vegetarian keyword; else unknown.  "Contains egg and milk"
\* gives non-vegetarian, "Suitable for vegetarians" gives vegetarian, an
\* absent text gives unknown.
C15_VegPriority ==
    ~IsNull(rendered) =>
       LET status == The(rendered).vegStatus
           text == combinedText(productShown)
       IN /\ status = IF MentionsNonVeg(text) THEN "non-veg"
                      ELSE IF MentionsVeg(text) THEN "veg"
                      ELSE "unknown"
          /\ OnlyAnalysis("Contains egg and milk") => status = "non-veg"
          /\ OnlyAnalysis("Suitable for vegetarians") => status = "veg"
          /\ (OnlyAnalysis(Undefined) \/ OnlyAnalysis("")) => status = "unknown"

\* a product whose text holds both kinds of keyword was rendered as
\* non-vegetarian
C15_Witness ==
    /\ ~IsNull(rendered)
    /\ productShown.harmful_ingredients_analysis = "Contains egg and milk"
    /\ productShown.labels = "Pure Veg"
    /\ MentionsVeg(combinedText(productShown))
    /\ The(rendered).vegStatus = "non-veg"

\* a nutrition value is present / is a blank string / is numeric (a number,
\* or a string that reads as a decimal number) and zero
Present(v) == v.t \notin {"null", "undefined"}

Blank(v) == v.t = "string" /\ trim(v.s) = ""

NumericZero(v) ==
    \/ v.t = "number" /\ v.n = 0
    \/ /\ v.t = "string"
       /\ trim(v.s) \in {"0", "0.0", "00", "0.", ".0", "0.00"}

\* the rows rendered for a nutrient key
RowsFor(key) ==
    { i \in 1 .. Len(The(rendered).rows) : The(rendered).rows[i].key = key }

\* C16: for each key of the nutrition table, one row is rendered for it when
\* its value is present, is not a blank string and is not a numeric zero,
\* and none otherwise; the row shows the value.  { sugars: 0, proteins: 5 }
\* renders the one row "Protein (g)" with the value 5.
C16_RowSuppression ==
    ~IsNull(rendered) =>
       LET nutrition == productShown.nutrition IN
       /\ \A n \in 1 .. Len(NutrientRows) :
             LET key == NutrientRows[n][2]
                 v == nutritionValue(nutrition, key)
             IN IF Present(v) /\ ~Blank(v) /\ ~NumericZero(v)
                THEN /\ Cardinality(RowsFor(key)) = 1
                     /\ \A i \in RowsFor(key) :
                           The(rendered).rows[i].value =
                              IF v.t = "number" THEN digitsOf(v.n) ELSE v.s
                ELSE RowsFor(key) = {}
       /\ nutrition = [sugars |-> JsNumber(0), proteins |-> JsNumber(5)]
          => The(rendered).rows = <<RowOf("Protein (g)", "proteins", "5")>>

\* { sugars: 0, proteins: 5 } was rendered: a protein row, no sugar row
C16_Witness ==
    /\ ~IsNull(rendered)
    /\ productShown.nutrition
          = [sugars |-> JsNumber(0), proteins |-> JsNumber(5)]
    /\ RowsFor("sugars") = {}
    /\ RowsFor("proteins") # {}

\* the explicit allergens field is present and not blank
ExplicitAllergens ==
    Truthy(productShown.allergens) /\ trim(productShown.allergens) # ""

\* the analysis text of the product rendered
AnalysisText == orEmpty(productShown.harmful_ingredients_analysis)

\* the text that follows the first occurrence of the marker (given in the
\* letter case to look for) and the whitespace after it
Following(text, haystack, marker) ==
    LET i == CHOOSE k \in 1 .. Len(text) :
                /\ StartsWithAt(haystack, k, marker)
                /\ \A l \in 1 .. k - 1 : ~StartsWithAt(haystack, l, marker)
        p == RunEnd(text, i + Len(marker), WhiteSpace, TRUE)
    IN SubSeq(text, p, Len(text))

\* the text up to the first of the given characters
UpTo(text, stops) == SubSeq(text, 1, RunEnd(text, 1, stops, FALSE) - 1)

\* C17 as stated: the explicit field when it is present and not blank;
\* else, when the analysis text holds the marker "Potential Allergens:"
\* (the letter case of the marker is not held against the statement), the
\* first line following the marker; else the empty string.
C17_AllergenPrecedence ==
    ~IsNull(rendered) =>
       LET lower == toLowerCase(AnalysisText) IN
       The(rendered).allergens =
          IF ExplicitAllergens THEN productShown.allergens
          ELSE IF Holds(lower, AllergenMarker)
          THEN trim(UpTo(Following(AnalysisText, lower, AllergenMarker),
                         LineBreaks))
          ELSE ""

\* C17, amended: the explicit field when it is present and not blank; else,
\* when the analysis text holds the marker in any letter case and a
\* character other than a period follows the marker and the whitespace
\* after it, the text from that character up to the first period or line
\* break, trimmed; else, when the text holds no marker, the empty string.
C17_AllergenSentence ==
    ~IsNull(rendered) =>
       LET lower == toLowerCase(AnalysisText)
           rest == Following(AnalysisText, lower, AllergenMarker)
       IN IF ExplicitAllergens
          THEN The(rendered).allergens = productShown.allergens
          ELSE IF ~Holds(lower, AllergenMarker)
          THEN The(rendered).allergens = ""
          ELSE (rest # "" /\ CharAt(rest, 1) # ".")
               => The(rendered).allergens = trim(UpTo(rest, SentenceEnd))

\* no explicit field, and the marker's line goes on after a period: the
\* allergens shown end at the period
C17_Witness ==
    /\ ~IsNull(rendered)
    /\ ~ExplicitAllergens
    /\ productShown.harmful_ingredients_analysis
          = "Info. Potential Allergens: milk, soy. Contains sugar.\nSee label"
    /\ The(rendered).allergens = "milk, soy"

\* the list the mount-time load read from the slot
StoredAtMount ==
    IF IsNull(load.s) \/ ~JSONparseOk(The(load.s)) THEN <<>>
    ELSE JSONparse(The(load.s))

\* the pruning policy of the mounted screen applied to a list at time t:
\* the 24-hour window (on the 24-hour screen) and the cap
Pruned(list, t) ==
    slice(IF screen = "barcode24h"
          THEN SelectSeq(list, LAMBDA item : ~Stale(item, t))
          ELSE list,
          HISTORY_CAP)

\* the load has read and parsed a stored list in this step
LoadRead ==
    /\ load.pc = "getItem" /\ load' # load
    /\ load'.outcome \notin {"read-failed", "parse-failed", "empty"}

LoadFailed ==
    /\ load' # load /\ load'.pc = "done"
    /\ load'.outcome \in {"read-failed", "parse-failed"}

\* the setItem of upload u's saveResult is issued in this step and fails
SaveWriteFails(u) ==
    /\ GotResponse(u)
    /\ saves'.calls = saves.calls + 1
    /\ saves'.ok = saves.ok

\* C19: on the barcode screens a mount-time load that fails to read or to
\* parse the slot shows no alert and changes nothing of the screen (the
\* history stays empty when nothing was saved meanwhile); when the write of
\* a saveResult fails, the step sets the result and shows no alert, and the
\* upload ends as a success with the result still set, no alert shown and
\* the loading flag false.
C19_StorageNonFatal ==
    [][(screen \in BarcodeScreens) =>
        /\ LoadFailed =>
              /\ UNCHANGED <<savedFoods, storage, image, serverResult,
                             loading, lastAlert, acq, uploads>>
              /\ saves.calls = 0 => savedFoods' = <<>>
        /\ \A u \in UploadIds :
              /\ SaveWriteFails(u) =>
                    /\ ~IsNull(serverResult')
                    /\ UNCHANGED <<lastAlert, storage>>
                    /\ Ends(u) \/ uploads'[u].pc = "saving"
              /\ (Ends(u) /\ StepOf(u)
                  /\ (SaveWriteFails(u)
                      \/ (uploads[u].pc = "saving"
                          /\ uploads[u].write = "failed")))
                 => /\ ended'.outcome = "success"
                    /\ lastAlert' = lastAlert
                    /\ loading' = FALSE
                    /\ uploads[u].pc = "saving" => UNCHANGED serverResult]_vars

\* the stored document did not parse and the write of the one save failed:
\* the history was empty for the upload, whose result is shown, with no
\* alert and the loading flag false
C19_Witness ==
    /\ screen = "barcode24h"
    /\ load.outcome = "parse-failed"
    /\ saves = [calls |-> 1, ok |-> 0]
    /\ ended.outcome = "success"
    /\ ~IsNull(serverResult)
    /\ Len(savedFoods) = 1
    /\ lastAlert = NoAlert
    /\ ~loading

\* ------------------------------------------------------------------ C20
\* the result the picker continuation holds, and the object whose fields
\* the image record is to carry: the first asset of a non-empty list,
\* else the result itself
PickedResult == The(acq.res)
PickedSource ==
    IF Len(PickedResult.assets) > 0 THEN PickedResult.assets[1]
    ELSE PickedResult

\* the result was not dismissed and its source has a uri
UsablePick ==
    /\ ~IsNull(acq.res)
    /\ PickedResult.canceled # "true" /\ PickedResult.cancelled # "true"
    /\ Truthy(PickedSource.uri)

\* C20: whatever the shape of the picker result (a list of one or two
\* assets, a single object with a uri, an empty list, no result at all),
\* normalizePickerResult returns one image record whose uri, width and
\* height are those of the first asset when a list is given and those of
\* the object itself otherwise, with an undefined file name and type in
\* the latter case, and returns null exactly when there is neither an asset
\* nor a uri; missing width, height or file name do not stop it.  The
\* continuation goes on to prepare that one record when it has a uri, and
\* otherwise ends with image, result and serverResult unchanged.
C20_PickerNormalisation ==
    [][(acq.pc = "picked") =>
         /\ ~IsNull(acq.res) =>
               LET n == normalizePickerResult(PickedResult) IN
               /\ IsNull(n) <=> (/\ Len(PickedResult.assets) = 0
                                 /\ ~Truthy(PickedResult.uri))
               /\ ~IsNull(n) =>
                     /\ The(n).uri = PickedSource.uri
                     /\ The(n).width = PickedSource.width
                     /\ The(n).height = PickedSource.height
                     /\ Len(PickedResult.assets) = 0 =>
                           /\ The(n).fileName = Undefined
                           /\ The(n).type = Undefined
                     /\ (/\ Len(PickedResult.assets) > 0
                         /\ Truthy(PickedSource.fileName)) =>
                           The(n).fileName = PickedSource.fileName
         /\ IF UsablePick
            THEN /\ acq'.pc = "prepare"
                 /\ ~IsNull(acq'.normalized)
                 /\ The(acq'.normalized).uri = PickedSource.uri
                 /\ The(acq'.normalized).width = PickedSource.width
                 /\ The(acq'.normalized).height = PickedSource.height
                 /\ UNCHANGED <<image, result, serverResult>>
            ELSE /\ acq' = IdleAcq
                 /\ UNCHANGED <<image, result, serverResult>>]_vars

\* a list of two assets was returned, the first of them without a file
\* name, a type or a size, and the record being prepared is the first one
C20_Witness ==
    /\ acq.pc = "prepare"
    /\ Len(PickedResult.assets) = 2
    /\ PickedResult.assets[1].uri # PickedResult.assets[2].uri
    /\ ~Truthy(PickedResult.assets[1].fileName)
    /\ PickedResult.assets[1].width = NoWidth
    /\ The(acq.normalized).uri = PickedResult.assets[1].uri
    /\ The(acq.normalized).fileName = "picked.jpg"
    /\ The(acq.normalized).type = "image/jpeg"

\* ------------------------------------------------------------------ C22
\* the result of the mounted screen
ShownResult == IF screen = "food" THEN result ELSE serverResult

\* C22: on the food and barcode screens the in-flight flag (uploading /
\* loading) is never true while a result (result / serverResult) is set.
C22_LoadingExcludesResult == ~(Indicator /\ ~IsNull(ShownResult))

\* ------------------------------------------------------------------ C23
\* the records of a list that the screen's policy keeps at time t, in order
Live(list, t) ==
    IF screen = "barcode24h"
    THEN SelectSeq(list, LAMBDA item : ~Stale(item, t))
    ELSE list

\* the load, every upload and every save have completed, every write of a
\* save has succeeded, and the clock has not advanced since the mount
AllCompleted ==
    /\ screen \in BarcodeScreens
    /\ load.pc = "done"
    /\ NoneInFlight
    /\ saves.ok = saves.calls
    /\ now = T0

\* C23: on a barcode screen, once the mount-time load, the uploads and the
\* saves have all completed (every write having succeeded), the persisted
\* list holds a live record for each successful upload and, after them, as
\* many of the live records stored at the mount as the cap of 50 leaves
\* room for: no live record among the 50 newest is lost.
C23_NoLostRecord ==
    AllCompleted =>
        LET kept == Live(StoredAtMount, now)
            room == Min(Len(kept), HISTORY_CAP - Min(saves.ok, HISTORY_CAP))
            persisted == Live(PersistedList, now)
        IN
        /\ Len(persisted) >= Min(saves.ok + Len(kept), HISTORY_CAP)
        /\ \A i \in 1 .. room :
              \E j \in 1 .. Len(persisted) : persisted[j] = kept[i]

\* ------------------------------------------------------------------ C24
\* upload call u sets the result of the mounted screen in this step
SetsResult(u) ==
    StepOf(u) /\ ~IsNull(ShownResult') /\ ShownResult' # ShownResult

\* C24: on the food and barcode screens, when an upload sets a result the
\* screen holds the image that upload sent, and while that result is shown
\* the image does not change (a newly selected image, Reset and Clear leave
\* no result behind).
C24_ResultMatchesImage ==
    [][/\ \A u \in UploadIds :
             SetsResult(u) =>
                /\ ~IsNull(image')
                /\ The(image').uri = uploads[u].uri
       /\ (image' # image) => IsNull(ShownResult')]_vars

\* ------------------------------------------------------------------ C25
\* no image is selected: `!image || !image.uri`
NoImage == IsNull(image) \/ ~Truthy(The(image).uri)

\* an upload call is refused in this step
Refused == ended' # ended /\ ended'.outcome = "refused"

\* upload call u sends its first request, or starts encoding, in this step
Starts(u) == uploads[u].pc = "idle" /\ uploads'[u].pc \notin {"idle", "done"}

\* this step of upload call u is the continuation of a 2xx response, or
\* the end of the saveResult that followed one
Succeeding(u) ==
    \/ GotResponse(u) /\ RespOk(The(uploads[u].resp))
    \/ uploads[u].pc = "saving"

\* C25: while no image is selected no step starts an upload or sets the
\* in-flight flag to true, and the step that refuses an upload leaves
\* savedFoods and the persisted list unchanged; every step of an upload
\* that is not the continuation of a 2xx response (an encoding failure, a
\* transport exception, a non-2xx response) leaves savedFoods and the
\* persisted list unchanged, and so does the step in which an upload ends
\* as failed.
C25_FailureKeepsHistory ==
    [][/\ NoImage =>
             /\ \A u \in UploadIds : ~Starts(u)
             /\ Indicator' => Indicator
       /\ Refused => UNCHANGED <<savedFoods, storage, loading, uploading>>
       /\ \A u \in UploadIds :
             /\ (StepOf(u) /\ ~Succeeding(u)) =>
                   UNCHANGED <<savedFoods, storage>>
             /\ (Ends(u) /\ ended'.outcome = "failed") =>
                   UNCHANGED <<savedFoods, storage>>]_vars

\* a barcode screen on which an upload has failed and the history, loaded
\* from the slot, is still there
C25_Witness ==
    /\ screen \in BarcodeScreens
    /\ ended.outcome = "failed"
    /\ load.outcome = "loaded"
    /\ Len(savedFoods) > 0
    /\ savedFoods = PersistedList
    /\ saves.calls = 0

\* ------------------------------------------------------------------ C21
\* the history a fresh mount of the pulse screen would read from the slot
PersistedHeart ==
    IF IsNull(heartStore) \/ ~JSONparseOk(The(heartStore)) THEN EmptyHistory
    ELSE JSONparse(The(heartStore))

\* the readings a history holds for a day
ReadingsOf(h, day) == IF day \in DOMAIN h THEN h[day] ELSE <<>>

\* the PulseScanResult listener saves a reading in this step, the history
\* having been loaded, and its write changes the slot
SavesReading ==
    /\ screen = "pulse"
    /\ pulseLoad.pc = "done" /\ pulseLoad.outcome \in {"loaded", "empty"}
    /\ scans'.saved = scans.saved + 1
    /\ heartStore' # heartStore

\* C21: on a pulse screen whose history has been loaded, a scan result
\* with a bpm above 0 leaves a persisted document in which today's list is
\* the list persisted so far followed by the new reading, and every other
\* day has the entry it had (so the entries stored at the mount and the
\* earlier readings all stay).
C21_HistoryAccumulates ==
    [][SavesReading =>
          LET today == isoDate(now) IN
          /\ DOMAIN PersistedHeart' = DOMAIN PersistedHeart \cup {today}
          /\ \A d \in DOMAIN PersistedHeart \ {today} :
                PersistedHeart'[d] = PersistedHeart[d]
          /\ Len(PersistedHeart'[today])
                = Len(ReadingsOf(PersistedHeart, today)) + 1
          /\ SubSeq(PersistedHeart'[today], 1,
                    Len(ReadingsOf(PersistedHeart, today)))
                = ReadingsOf(PersistedHeart, today)
          /\ The(bpm') = PersistedHeart'[today][Len(PersistedHeart'[today])].bpm
      ]_vars

\* ------------------------------------------------------------------ C26
\* the PulseScanResult listener starts on an event in this step
ResultEvent ==
    /\ screen = "pulse"
    /\ Len(events) > 0 /\ Head(events).type = "PulseScanResult"
    /\ events' = Tail(events)

\* the PulseScanResult listener h ends in this step
ListenerEnds(h) ==
    /\ h \in 1 .. Len(handlers') /\ handlers'[h] = "done"
    /\ h \in 1 .. Len(handlers) => handlers[h] # "done"

\* the number of readings equal to r that a history holds for a day
Occurrences(h, day, r) ==
    Cardinality({i \in 1 .. Len(ReadingsOf(h, day)) : ReadingsOf(h, day)[i] = r})

\* C26: a PulseScanResult event with a bpm above 0 sets the displayed bpm to
\* it and saves it once: one saveBpm call, after which today's list of the
\* history holds the reading once, as its last element, and so does the
\* slot when the write succeeds; an event with a bpm of 0 or less shows the
\* Detection Failed alert and changes neither the displayed bpm, nor the
\* history, nor the slot.  In both cases the listener, when it ends, leaves
\* scanning false and the sample count and the current value 0, and the
\* end of a listener that saved changes neither bpm nor history.
C26_ResultHandling ==
    [][/\ ResultEvent =>
             LET newBpm == Head(events).bpm
                 today == isoDate(now)
                 r == Reading(newBpm, now)
             IN
             IF newBpm > 0
             THEN /\ bpm' = Some(newBpm)
                  /\ scans'.saved = scans.saved + 1
                  /\ Occurrences(heartHistory', today, r) = 1
                  /\ heartHistory'[today][Len(heartHistory'[today])] = r
                  /\ \/ heartStore' = heartStore
                     \/ /\ Occurrences(PersistedHeart', today, r) = 1
                        /\ PersistedHeart' = heartHistory'
                  /\ UNCHANGED lastAlert
             ELSE /\ lastAlert' = Alert("Detection Failed", NoMsg)
                  /\ UNCHANGED <<bpm, heartHistory, heartStore>>
                  /\ scans'.saved = scans.saved
                  /\ ListenerEnds(Len(handlers'))
       /\ \A h \in 1 .. MaxScans :
             ListenerEnds(h) =>
                /\ scanning' = FALSE
                /\ sampleCount' = 0
                /\ currentValue' = 0
                /\ ~ResultEvent =>
                      UNCHANGED <<bpm, heartHistory, heartStore, scans>>
      ]_vars

\* a scan has ended with a bpm above 0: it is displayed, saved once and
\* persisted, and the listener has ended with the scan indicators reset
C26_Witness ==
    /\ screen = "pulse"
    /\ scans.saved = 1
    /\ Len(handlers) = 1 /\ handlers[1] = "done"
    /\ bpm = Some(72)
    /\ ~scanning /\ sampleCount = 0 /\ currentValue = 0
    /\ Occurrences(PersistedHeart, isoDate(now), Reading(72, now)) = 1

\* ------------------------------------------------------------------ C27
\* the continuation of startScan call i / of stopScan call i runs in this
\* step
StartContinues(i) ==
    /\ i \in 1 .. Len(startCall) /\ startCall[i] \in {"resolved", "rejected"}
    /\ startCall'[i] = "done"
StopContinues(i) ==
    /\ i \in 1 .. Len(stopCall) /\ stopCall[i] \in {"resolved", "rejected"}
    /\ stopCall'[i] = "done"

\* once scanning is true it becomes false again
C27_Eventually == scanning ~> ~scanning

\* a start failure resets scanning
C27_StartFailure ==
    [][\A i \in 1 .. MaxScans :
          (StartContinues(i) /\ startCall[i] = "rejected") => ~scanning']_vars

\* a user cancel resets scanning, whether or not the native stop succeeded
C27_Cancel ==
    [][\A i \in 1 .. MaxStops : StopContinues(i) => ~scanning']_vars

\* after a user cancel, and until a new scan is started, no bpm is set and
\* none is saved
C27_AfterCancel ==
    [][(scans.cancelled # "no" /\ scans'.cancelled # "no") =>
          /\ bpm' \in {bpm, Null}
          /\ scans'.saved = scans.saved]_vars

\* C27: once the pulse screen has set scanning to true, scanning becomes
\* false again on every path: a start failure resets it, a user cancel
\* resets it whether or not the native stop call succeeds, a result event
\* resets it; and after a user cancel no bpm is displayed or saved until a
\* new scan is started.
C27_ScanEnds ==
    /\ C27_Eventually
    /\ C27_StartFailure
    /\ C27_Cancel
    /\ C27_AfterCancel

====
